---- MODULE Spec2Model ----
(***************************************************************************)
(* A model of the solang middle-end pieces that build control-flow graphs: *)
(* the Substrate function dispatch (codegen/dispatch/substrate.rs) and the *)
(* SCALE compact-size fragment (codegen/encoding/scale_encoding.rs).       *)
(* The builders are translated statement by statement; the CFG they        *)
(* produce is then executed by a small interpreter over the instruction    *)
(* set the builders emit.                                                  *)
(***************************************************************************)
EXTENDS Integers, Sequences, FiniteSets, TLC

VARIABLES
    all_cfg,    \* function_dispatch: the contract's CFGs (public, ty, nonpayable, selector)
    phase,      \* "init" | "built" | "running" | "halted"
    dispatch,   \* the Dispatch struct: fail_bb, input, value, vartab, cfg
    frag,       \* the lowering of a size: op, vartab, cfg, ret (the expression returned)
    rt,         \* the runtime call: args of the generated function, math_overflow_check
    exec        \* the generated code running: block, idx, env, status, trace, calls, writes

vars == <<all_cfg, phase, dispatch, frag, rt, exec>>

----------------------------------------------------------------------------
(* Bounds of the model.                                                    *)

\* how many CFGs a contract has at most
MaxCfgs == 2
\* the longest call input, in bytes
MaxInputLen == 5
\* the largest transferred value
MaxValue == 1
\* how far around each width-class boundary the sizes to encode go
MaxDelta == 2
\* the largest buffer offset a size is written at
MaxOffset == 1

----------------------------------------------------------------------------
(* Unsigned machine integers.  A value is a pair of 16-bit limbs, so that  *)
(* every 32-bit value is representable and arithmetic wraps at 2^32.       *)

Limb == 256 * 256

U(hi, lo) == [hi |-> hi, lo |-> lo]

\* a number below 2^31 as a 32-bit value
Nat32(n) == U(n \div Limb, n % Limb)

ULess(a, b) == a.hi < b.hi \/ (a.hi = b.hi /\ a.lo < b.lo)

UMore(a, b) == ULess(b, a)

\* a * b over the naturals, as <<carry out of 32 bits, low 32 bits>>, for b < 2^16
UMulWide(a, b) ==
    LET lo == a.lo * b
        hi == a.hi * b + (lo \div Limb)
    IN  [carry |-> hi \div Limb, val |-> U(hi % Limb, lo % Limb)]

\* a + b over the naturals, as carry out of 32 bits and low 32 bits
UAddWide(a, b) ==
    LET lo == a.lo + b.lo
        hi == a.hi + b.hi + (lo \div Limb)
    IN  [carry |-> hi \div Limb, val |-> U(hi % Limb, lo % Limb)]

RECURSIVE BitOr(_, _)
BitOr(x, y) ==
    IF x = 0 THEN y
    ELSE IF y = 0 THEN x
    ELSE (IF x % 2 = 1 \/ y % 2 = 1 THEN 1 ELSE 0) + 2 * BitOr(x \div 2, y \div 2)

UOr(a, b) == U(BitOr(a.hi, b.hi), BitOr(a.lo, b.lo))

\* BigInt::from_bytes_le on a selector of four bytes
from_bytes_le(bytes) ==
    U((IF Len(bytes) >= 3 THEN bytes[3] ELSE 0) + 256 * (IF Len(bytes) >= 4 THEN bytes[4] ELSE 0),
      (IF Len(bytes) >= 1 THEN bytes[1] ELSE 0) + 256 * (IF Len(bytes) >= 2 THEN bytes[2] ELSE 0))

----------------------------------------------------------------------------
(* Types and expressions: the variants of Expression the builders use.     *)

Uint(bits) == [ty |-> "Uint", bits |-> bits]

U32 == Uint(32)

DynamicBytes == [ty |-> "DynamicBytes", bits |-> 0]

String == [ty |-> "String", bits |-> 0]

Bytes(n) == [ty |-> "Bytes", bits |-> 8 * n]

Bool == [ty |-> "Bool", bits |-> 1]

Contract(no) == [ty |-> "Contract", bits |-> 0, no |-> no]

NumberLiteral(ty, n) == [e |-> "NumberLiteral", ty |-> ty, n |-> n]

FunctionArg(ty, no) == [e |-> "FunctionArg", ty |-> ty, no |-> no]

Variable(ty, id) == [e |-> "Variable", ty |-> ty, id |-> id]

Builtin(tys, fn, args) == [e |-> "Builtin", tys |-> tys, fn |-> fn, args |-> args]

\* Expression::Less { signed: false, left, right }
Less(left, right) == [e |-> "Less", signed |-> FALSE, left |-> left, right |-> right]

\* Expression::More { signed: false, left, right }
More(left, right) == [e |-> "More", signed |-> FALSE, left |-> left, right |-> right]

UnsignedMore(left, right) == [e |-> "UnsignedMore", left |-> left, right |-> right]

Multiply(ty, unchecked, left, right) ==
    [e |-> "Multiply", ty |-> ty, unchecked |-> unchecked, left |-> left, right |-> right]

BitwiseOr(ty, left, right) == [e |-> "BitwiseOr", ty |-> ty, left |-> left, right |-> right]

Add(ty, unchecked, left, right) ==
    [e |-> "Add", ty |-> ty, unchecked |-> unchecked, left |-> left, right |-> right]

Equal(left, right) == [e |-> "Equal", left |-> left, right |-> right]

\* Expression::AllocDynamicBytes { size, initializer: Some(vec![]) }
AllocDynamicBytes(ty, size) ==
    [e |-> "AllocDynamicBytes", ty |-> ty, size |-> size, initializer |-> <<>>]

ReturnData == [e |-> "ReturnData"]

\* where the environment of a run keeps the return data of the last call
ReturnDataSlot == 0 - 1

\* the value of an expression: a 32-bit value, a buffer (sequence of bytes) or a boolean
RECURSIVE Eval(_, _, _)
Eval(expr, args, env) ==
    CASE expr.e = "NumberLiteral" -> expr.n
      [] expr.e = "FunctionArg" -> args[expr.no + 1]
      [] expr.e = "Variable" -> env[expr.id]
      [] expr.e = "Builtin" /\ expr.fn = "ArrayLength" ->
            Nat32(Len(Eval(expr.args[1], args, env)))
      [] expr.e = "Builtin" /\ expr.fn = "ReadFromBuffer" ->
            \* reads selector-width bytes, little endian, at the given offset
            LET buf == Eval(expr.args[1], args, env)
                off == Eval(expr.args[2], args, env).lo
                n == expr.tys[1].bits \div 8
            IN  from_bytes_le(SubSeq(buf, off + 1, off + n))
      [] expr.e = "Less" ->
            ULess(Eval(expr.left, args, env), Eval(expr.right, args, env))
      [] expr.e \in {"More", "UnsignedMore"} ->
            UMore(Eval(expr.left, args, env), Eval(expr.right, args, env))
      [] expr.e = "Multiply" ->
            UMulWide(Eval(expr.left, args, env), Eval(expr.right, args, env).lo).val
      [] expr.e = "BitwiseOr" ->
            UOr(Eval(expr.left, args, env), Eval(expr.right, args, env))
      [] expr.e = "Add" ->
            UAddWide(Eval(expr.left, args, env), Eval(expr.right, args, env)).val
      [] expr.e = "Equal" ->
            Eval(expr.left, args, env) = Eval(expr.right, args, env)
      [] expr.e = "AllocDynamicBytes" -> expr.initializer
      [] expr.e = "ReturnData" -> env[ReturnDataSlot]

\* whether a checked multiplication or addition inside the expression leaves 32 bits
RECURSIVE Overflows(_, _, _)
Overflows(expr, args, env) ==
    CASE expr.e = "Add" ->
            \/ Overflows(expr.left, args, env)
            \/ Overflows(expr.right, args, env)
            \/ /\ ~expr.unchecked
               /\ UAddWide(Eval(expr.left, args, env), Eval(expr.right, args, env)).carry > 0
      [] expr.e = "Multiply" ->
            \/ Overflows(expr.left, args, env)
            \/ Overflows(expr.right, args, env)
            \/ /\ ~expr.unchecked
               /\ UMulWide(Eval(expr.left, args, env), Eval(expr.right, args, env).lo).carry > 0
      [] expr.e \in {"Less", "More", "UnsignedMore", "BitwiseOr", "Equal"} ->
            Overflows(expr.left, args, env) \/ Overflows(expr.right, args, env)
      [] OTHER -> FALSE

\* whether the expression reads a buffer beyond its end
RECURSIVE OutOfBounds(_, _, _)
OutOfBounds(expr, args, env) ==
    CASE expr.e = "Builtin" /\ expr.fn = "ReadFromBuffer" ->
            Eval(expr.args[2], args, env).lo + (expr.tys[1].bits \div 8)
                > Len(Eval(expr.args[1], args, env))
      [] expr.e \in {"Less", "More", "UnsignedMore", "BitwiseOr", "Multiply", "Add", "Equal"} ->
            OutOfBounds(expr.left, args, env) \/ OutOfBounds(expr.right, args, env)
      [] OTHER -> FALSE

----------------------------------------------------------------------------
(* Vartable and ControlFlowGraph: variable ids, basic blocks, the current  *)
(* block, and the dirty trackers that become phi sets.                     *)

Vartable_new(next_id) == [next_id |-> next_id, vars |-> <<>>, dirty |-> <<>>]

\* vartab.temp_name / temp_anonymous return the id that was next
temp_name(vartab, name, ty) ==
    [vartab EXCEPT !.vars = Append(@, [id |-> vartab.next_id, name |-> name, ty |-> ty]),
                   !.next_id = @ + 1]

temp_anonymous(vartab, ty) == temp_name(vartab, "temp", ty)

new_dirty_tracker(vartab) == [vartab EXCEPT !.dirty = Append(@, {})]

set_dirty(vartab, id) ==
    [vartab EXCEPT !.dirty = [i \in 1..Len(vartab.dirty) |-> vartab.dirty[i] \cup {id}]]

\* the set pop_dirty_tracker returns, and the table it leaves
dirty_top(vartab) == vartab.dirty[Len(vartab.dirty)]

pop_dirty_tracker(vartab) == [vartab EXCEPT !.dirty = SubSeq(@, 1, Len(@) - 1)]

BasicBlock(name) == [name |-> name, instr |-> <<>>, phis |-> {}]

\* a new graph has its entry block, block 0, as the current block
ControlFlowGraph_new(name) ==
    [name |-> name, blocks |-> <<BasicBlock("entry")>>, current |-> 0]

\* new_basic_block returns the number of the block it appends: the old length
new_basic_block(cfg, name) == [cfg EXCEPT !.blocks = Append(@, BasicBlock(name))]

set_basic_block(cfg, pos) == [cfg EXCEPT !.current = pos]

set_phis(cfg, block, phis) == [cfg EXCEPT !.blocks[block + 1].phis = phis]

\* cfg.add on a builder state s with fields cfg and vartab: the instruction goes
\* to the end of the current block; a Set marks its variable dirty
ControlFlowGraph_add(s, ins) ==
    [s EXCEPT !.cfg = [@ EXCEPT !.blocks[@.current + 1].instr = Append(@, ins)],
              !.vartab = IF ins.op = "Set" THEN set_dirty(@, ins.res) ELSE @]

----------------------------------------------------------------------------
(* Instructions, and their execution.                                      *)

Set(res, expr) == [op |-> "Set", res |-> res, expr |-> expr]

BranchCond(cond, true_block, false_block) ==
    [op |-> "BranchCond", cond |-> cond, true_block |-> true_block, false_block |-> false_block]

Branch(block) == [op |-> "Branch", block |-> block]

\* cases: a sequence of [case, block]
Switch(cond, cases, default) ==
    [op |-> "Switch", cond |-> cond, cases |-> cases, default |-> default]

\* Instr::Call { res: [], return_tys: [], call: Static { cfg_no }, args: [] }
Call(cfg_no) == [op |-> "Call", cfg_no |-> cfg_no, args |-> <<>>]

ReturnCode(code) == [op |-> "ReturnCode", code |-> code]

None == [none |-> TRUE]

\* Instr::AssertFailure { encoded_args: None }
AssertFailure == [op |-> "AssertFailure", encoded_args |-> None]

\* Instr::AssertFailure { encoded_args: Some(expr) }
AssertFailureWith(encoded_args) == [op |-> "AssertFailure", encoded_args |-> encoded_args]

\* Instr::Return { value: [] }
Return == [op |-> "Return", value |-> <<>>]

\* Instr::ExternalCall { success: Some(success), callty: CallTy::Regular, .. }
ExternalCall(success) == [op |-> "ExternalCall", success |-> success, callty |-> "Regular"]

\* Instr::Constructor { success: Some(success), res, .. }
Constructor(success, res) == [op |-> "Constructor", success |-> success, res |-> res]

WriteBuffer(buf, offset, value) ==
    [op |-> "WriteBuffer", buf |-> buf, offset |-> offset, value |-> value]

Terminators == {"BranchCond", "Branch", "Switch", "ReturnCode", "AssertFailure", "Return"}

\* the expressions an instruction evaluates
InstrExprs(ins) ==
    CASE ins.op = "Set" -> {ins.expr}
      [] ins.op = "BranchCond" -> {ins.cond}
      [] ins.op = "Switch" -> {ins.cond}
      [] ins.op = "WriteBuffer" -> {ins.offset, ins.value}
      [] ins.op = "AssertFailure" /\ ins.encoded_args # None -> {ins.encoded_args}
      [] OTHER -> {}

ExecStart(block) ==
    [block |-> block, idx |-> 1, env |-> <<>>, status |-> "running",
     trace |-> <<block>>, calls |-> <<>>, writes |-> <<>>, payload |-> None]

Goto(x, b) == [x EXCEPT !.block = b, !.idx = 1, !.trace = Append(@, b)]

SwitchTarget(ins, args, env) ==
    LET v == Eval(ins.cond, args, env)
        hits == {i \in 1..Len(ins.cases) : Eval(ins.cases[i].case, args, env) = v}
    IN  IF hits = {} THEN ins.default
        ELSE ins.cases[CHOOSE i \in hits : \A j \in hits : i <= j].block

\* one instruction of the generated code
Step(cfg, x, r) ==
    LET instr == cfg.blocks[x.block + 1].instr IN
    IF x.idx > Len(instr) THEN [x EXCEPT !.status = "unterminated"]
    ELSE
    LET ins == instr[x.idx] IN
    IF \E ex \in InstrExprs(ins) : OutOfBounds(ex, r.args, x.env)
        THEN [x EXCEPT !.status = "out_of_bounds"]
    ELSE IF r.math_overflow_check /\ \E ex \in InstrExprs(ins) : Overflows(ex, r.args, x.env)
        THEN [x EXCEPT !.status = "overflow_trap"]
    ELSE
    CASE ins.op = "Set" ->
            [x EXCEPT !.env = (ins.res :> Eval(ins.expr, r.args, x.env)) @@ @, !.idx = @ + 1]
      [] ins.op = "BranchCond" ->
            Goto(x, IF Eval(ins.cond, r.args, x.env) THEN ins.true_block ELSE ins.false_block)
      [] ins.op = "Branch" -> Goto(x, ins.block)
      [] ins.op = "Switch" -> Goto(x, SwitchTarget(ins, r.args, x.env))
      [] ins.op = "Call" -> [x EXCEPT !.calls = Append(@, ins.cfg_no), !.idx = @ + 1]
      [] ins.op = "ReturnCode" -> [x EXCEPT !.status = "return_code"]
      [] ins.op = "AssertFailure" ->
            [x EXCEPT !.status = "assert_failure",
                      !.payload = IF ins.encoded_args = None THEN None
                                  ELSE Eval(ins.encoded_args, r.args, x.env)]
      [] ins.op = "Return" -> [x EXCEPT !.status = "return"]
      [] ins.op = "WriteBuffer" ->
            [x EXCEPT !.writes = Append(@, [offset |-> Eval(ins.offset, r.args, x.env),
                                            value |-> Eval(ins.value, r.args, x.env),
                                            bits |-> ins.value.ty.bits,
                                            block |-> x.block]),
                      !.idx = @ + 1]

\* the instructions of a graph, counted: no run of an acyclic graph is longer
RECURSIVE InstrCount(_, _)
InstrCount(cfg, n) ==
    IF n = 0 THEN 0 ELSE Len(cfg.blocks[n].instr) + 1 + InstrCount(cfg, n - 1)

RECURSIVE RunFor(_, _, _, _)
RunFor(cfg, x, r, fuel) ==
    IF x.status # "running" \/ fuel = 0 THEN x ELSE RunFor(cfg, Step(cfg, x, r), r, fuel - 1)

\* the run of the generated code from the start of a block, to its end
Run(cfg, block, r) == RunFor(cfg, ExecStart(block), r, InstrCount(cfg, Len(cfg.blocks)) + 1)

----------------------------------------------------------------------------
(* codegen/dispatch/substrate.rs: function_dispatch.                       *)

\* ns.target.selector_length() of the Substrate target, in bytes
SelectorLength == 4

\* the parts of the Namespace the dispatch reads
ns == [next_id |-> 0, value_length |-> 16, selector_length |-> SelectorLength]

\* Dispatch::add
add(self, ins) == ControlFlowGraph_add(self, ins)

\* Dispatch::new
Dispatch_new(cfgs, namespace) ==
    LET vartab0 == Vartable_new(namespace.next_id)
        cfg0 == ControlFlowGraph_new("solang_dispatch")
        \* Read input length from args
        input_expr == FunctionArg(DynamicBytes, 0)
        input == vartab0.next_id
        vartab1 == temp_name(vartab0, "input_len", Uint(32))
        expr == Builtin(<<Uint(32)>>, "ArrayLength", <<input_expr>>)
        s1 == ControlFlowGraph_add([vartab |-> vartab1, cfg |-> cfg0], Set(input, expr))
        \* Read transferred value from args
        input_epxr == FunctionArg(DynamicBytes, 1)
        value == s1.vartab.next_id
        vartab2 == temp_name(s1.vartab, "value", Uint(namespace.value_length))
        s2 == ControlFlowGraph_add([s1 EXCEPT !.vartab = vartab2], Set(value, input_epxr))
        fail_bb == Len(s2.cfg.blocks)
        cfg3 == set_basic_block(new_basic_block(s2.cfg, "assert_failure"), fail_bb)
        s3 == ControlFlowGraph_add([s2 EXCEPT !.cfg = cfg3], AssertFailure)
    IN  [fail_bb |-> fail_bb, vartab |-> s3.vartab, value |-> value, input |-> input,
         cfg |-> s3.cfg, all_cfg |-> cfgs, ns |-> namespace]

\* Dispatch::selector_invalid
selector_invalid(self) == add(self, ReturnCode("FunctionSelectorInvalid"))

\* the guard both abort_if_value_transfer and fallback_or_receive emit:
\* More { signed: false, left: 0, right: value }
value_cond(self) ==
    LET value_ty == Uint(self.ns.value_length)
    IN  More(NumberLiteral(value_ty, Nat32(0)), Variable(value_ty, self.value))

\* Dispatch::abort_if_value_transfer
abort_if_value_transfer(self, msg_no) ==
    IF ~self.all_cfg[msg_no + 1].nonpayable THEN self
    ELSE
    LET false_block == Len(self.cfg.blocks)
        s1 == [self EXCEPT !.cfg = new_basic_block(@, "no_value")]
        s2 == add(s1, BranchCond(value_cond(self), self.fail_bb, false_block))
    IN  [s2 EXCEPT !.cfg = set_basic_block(@, false_block)]

\* Dispatch::dispatch_case: the builder afterwards, and the block it returns
dispatch_case(self, msg_no) ==
    LET case == Len(self.cfg.blocks)
        s1 == [self EXCEPT !.cfg = new_basic_block(@, "dispatch_case_" \o ToString(msg_no))]
        s2 == [s1 EXCEPT !.cfg = set_basic_block(@, case)]
    IN  [self |-> abort_if_value_transfer(s2, msg_no), case |-> case]

\* the filter without its visibility test: private functions would get a case
has_case_any_visibility(msg_cfg) == msg_cfg.ty \in {"Function", "Constructor"}

\* the filter of Dispatch::build: the CFGs that get a switch case
has_case(msg_cfg) == msg_cfg.public /\ msg_cfg.ty \in {"Function", "Constructor"}

\* the filter and map of Dispatch::build, from CFG msg_no on, in order: the
\* builder afterwards, and the cases
RECURSIVE build_cases(_, _, _)
build_cases(self, msg_no, selector_ty) ==
    IF msg_no >= Len(self.all_cfg) THEN [self |-> self, cases |-> <<>>]
    ELSE IF ~has_case(self.all_cfg[msg_no + 1]) THEN build_cases(self, msg_no + 1, selector_ty)
    ELSE
    LET selector == from_bytes_le(self.all_cfg[msg_no + 1].selector)
        case == NumberLiteral(selector_ty, selector)
        made == dispatch_case(self, msg_no)
        rest == build_cases(made.self, msg_no + 1, selector_ty)
    IN  [self |-> rest.self,
         cases |-> <<[case |-> case, block |-> made.case]>> \o rest.cases]

\* the fold without its visibility guards: a private fallback or receive would count
fb_recv_any_visibility(cfgs) ==
    LET last(S) == {no \in S : \A other \in S : other <= no}
    IN  << last({no \in 0..(Len(cfgs) - 1) : cfgs[no + 1].ty = "Fallback"}),
           last({no \in 0..(Len(cfgs) - 1) : cfgs[no + 1].ty = "Receive"}) >>

\* the fold of fallback_or_receive: the last public fallback and the last public
\* receive, as sets of at most one CFG number (None: the empty set)
fb_recv(cfgs) ==
    LET last(S) == {no \in S : \A other \in S : other <= no}
    IN  << last({no \in 0..(Len(cfgs) - 1) : cfgs[no + 1].ty = "Fallback" /\ cfgs[no + 1].public}),
           last({no \in 0..(Len(cfgs) - 1) : cfgs[no + 1].ty = "Receive" /\ cfgs[no + 1].public}) >>

\* what fallback_or_receive puts in the fallback or the receive block
call_or_invalid(self, found) ==
    IF found # {} THEN add(self, Call(CHOOSE cfg_no \in found : TRUE))
    ELSE selector_invalid(self)

\* Dispatch::fallback_or_receive
fallback_or_receive(self) ==
    LET found == fb_recv(self.all_cfg) IN
    \* No need to check value transferred; we will abort either way
    IF found[1] = {} /\ found[2] = {} THEN selector_invalid(self)
    ELSE
    LET fallback_block == Len(self.cfg.blocks)
        s1 == [self EXCEPT !.cfg = new_basic_block(@, "fallback")]
        receive_block == Len(s1.cfg.blocks)
        s2 == [s1 EXCEPT !.cfg = new_basic_block(@, "receive")]
        s3 == add(s2, BranchCond(value_cond(self), receive_block, fallback_block))
        s4 == [s3 EXCEPT !.cfg = set_basic_block(@, fallback_block)]
        s5 == call_or_invalid(s4, found[1])
        s6 == [s5 EXCEPT !.cfg = set_basic_block(@, receive_block)]
    IN  call_or_invalid(s6, found[2])

\* the branch on the input length that Dispatch::build emits first
input_len_cond(self) ==
    LET selector_len == Nat32(self.ns.selector_length)
    IN  Less(NumberLiteral(Uint(32), selector_len), Variable(Uint(32), self.input))

\* Dispatch::build; the builder is kept, its cfg is what build returns
build(self) ==
    LET \* Go to fallback or receive if there is no selector in the call input
        default == Len(self.cfg.blocks)
        s1 == [self EXCEPT !.cfg = new_basic_block(@, "fb_or_recv")]
        start_dispatch_block == Len(s1.cfg.blocks)
        s2 == [s1 EXCEPT !.cfg = new_basic_block(@, "start_dispatch")]
        s3 == add(s2, BranchCond(input_len_cond(self), default, start_dispatch_block))
        \* Read selector
        s4 == [s3 EXCEPT !.cfg = set_basic_block(@, start_dispatch_block)]
        selector_ty == Uint(8 * self.ns.selector_length)
        cond == Builtin(<<selector_ty>>, "ReadFromBuffer",
                        <<FunctionArg(DynamicBytes, 0), NumberLiteral(selector_ty, Nat32(0))>>)
        made == build_cases(s4, 0, selector_ty)
        s5 == ControlFlowGraph_add(made.self, Switch(cond, made.cases, default))
        \* Handle fallback or receive case
        s6 == [s5 EXCEPT !.cfg = set_basic_block(@, default)]
    IN  fallback_or_receive(s6)

----------------------------------------------------------------------------
(* The dispatch specification: a contract is chosen, function_dispatch     *)
(* builds its dispatch CFG, and the CFG is run on calls.                   *)

FunctionTy == {"Function", "Constructor", "Fallback", "Receive"}

\* selectors are unique (enforced upstream): CFG msg_no has its own
SelectorOf(msg_no) == <<msg_no + 1, 0, 0, msg_no + 2>>

\* a selector no CFG has
OtherSelector == <<255, 255, 255, 255>>

CfgsOfLen(n) ==
    {c \in [1..n -> [public : BOOLEAN, ty : FunctionTy, nonpayable : BOOLEAN]] : TRUE}

Contracts ==
    UNION {{[i \in 1..n |-> [public |-> c[i].public, ty |-> c[i].ty,
                              nonpayable |-> c[i].nonpayable, selector |-> SelectorOf(i - 1)]]
             : c \in CfgsOfLen(n)} : n \in 0..MaxCfgs}

\* the first len bytes of a selector followed by zero bytes
InputOf(selector, len) ==
    [i \in 1..len |-> IF i <= Len(selector) THEN selector[i] ELSE 0]

Inputs ==
    {InputOf(sel, len) : sel \in {SelectorOf(no) : no \in 0..(MaxCfgs - 1)} \cup {OtherSelector},
                         len \in 0..MaxInputLen}

InitDispatch ==
    /\ all_cfg \in Contracts
    /\ phase = "init"
    /\ dispatch = None
    /\ frag = None
    /\ rt = None
    /\ exec = None

\* function_dispatch: Dispatch::new(all_cfg, ns).build()
function_dispatch ==
    /\ phase = "init"
    /\ dispatch' = build(Dispatch_new(all_cfg, ns))
    /\ phase' = "built"
    /\ UNCHANGED <<all_cfg, frag, rt, exec>>

\* the contract is called: the generated code starts at block 0
Invoke ==
    /\ phase = "built"
    /\ \E input \in Inputs, value \in 0..MaxValue :
          rt' = [args |-> <<input, Nat32(value)>>, math_overflow_check |-> FALSE]
    /\ exec' = ExecStart(0)
    /\ phase' = "running"
    /\ UNCHANGED <<all_cfg, dispatch, frag>>

\* the generated code executes one instruction
ExecStep ==
    /\ phase = "running"
    /\ exec' = Step(dispatch.cfg, exec, rt)
    /\ phase' = IF exec'.status = "running" THEN "running" ELSE "halted"
    /\ UNCHANGED <<all_cfg, dispatch, frag, rt>>

NextDispatch == function_dispatch \/ Invoke \/ ExecStep

Spec == InitDispatch /\ [][NextDispatch]_vars

----------------------------------------------------------------------------
(* Properties of the dispatch CFG.                                         *)

\* the blocks of the dispatch CFG that have a name
BlocksNamed(name) ==
    {b \in 0..(Len(dispatch.cfg.blocks) - 1) : dispatch.cfg.blocks[b + 1].name = name}

TheBlock(name) == CHOOSE b \in BlocksNamed(name) : TRUE

\* the run of the dispatch CFG from a block, with the variables as the entry
\* block sets them for the call
RunFrom(block, r) ==
    RunFor(dispatch.cfg, [ExecStart(block) EXCEPT !.env = Run(dispatch.cfg, 0, r).env], r,
           InstrCount(dispatch.cfg, Len(dispatch.cfg.blocks)) + 1)

InputLen == Len(rt.args[1])

ValueIsZero == rt.args[2] = Nat32(0)

\* the CFGs that must get a switch case
Dispatched ==
    {msg_no \in 0..(Len(all_cfg) - 1) :
        all_cfg[msg_no + 1].public /\ all_cfg[msg_no + 1].ty \in {"Function", "Constructor"}}

PublicOfTy(ty) ==
    {no \in 0..(Len(all_cfg) - 1) : all_cfg[no + 1].public /\ all_cfg[no + 1].ty = ty}

\* C1: a call whose input is shorter than the selector goes from the entry straight
\* to fb_or_recv, any other call goes from the entry to start_dispatch.
C1_InputLengthRoutes ==
    phase = "halted" =>
        /\ Len(exec.trace) >= 2
        /\ exec.trace[1] = 0
        /\ exec.trace[2] = IF InputLen < SelectorLength THEN TheBlock("fb_or_recv")
                           ELSE TheBlock("start_dispatch")
        /\ InputLen < SelectorLength => exec.status # "out_of_bounds"

\* C2: in the dispatch case of a non-payable function the guard goes to assert_failure
\* first when value > 0, and never when value = 0.
C2_NonPayableGuard ==
    phase = "halted" =>
        \A msg_no \in Dispatched :
            all_cfg[msg_no + 1].nonpayable =>
                LET x == RunFrom(TheBlock("dispatch_case_" \o ToString(msg_no)), rt) IN
                IF ValueIsZero
                THEN \A i \in 1..Len(x.trace) : x.trace[i] # dispatch.fail_bb
                ELSE /\ Len(x.trace) >= 2
                     /\ x.trace[2] = dispatch.fail_bb
                     /\ x.status = "assert_failure"
                     /\ x.calls = <<>>

\* what C3 expects at the end of the fallback or the receive block
HandlerReached(x, block, found) ==
    /\ Len(x.trace) = 2
    /\ BlocksNamed(block) = {x.trace[2]}
    /\ IF found = {} THEN x.status = "return_code" /\ x.calls = <<>>
       ELSE \E cfg_no \in found : x.calls = <<cfg_no>>

\* C3: with a public fallback or receive declared, fb_or_recv goes to the fallback
\* block when value = 0 and to the receive block when value > 0; each calls its
\* function, or returns FunctionSelectorInvalid when that function is not declared.
C3_FallbackOrReceiveByValue ==
    (phase = "halted" /\ PublicOfTy("Fallback") \cup PublicOfTy("Receive") # {}) =>
        LET x == RunFrom(TheBlock("fb_or_recv"), rt) IN
        IF ValueIsZero THEN HandlerReached(x, "fallback", PublicOfTy("Fallback"))
        ELSE HandlerReached(x, "receive", PublicOfTy("Receive"))

\* C4: with no public fallback and no public receive, fb_or_recv is the
\* FunctionSelectorInvalid return code alone, there is no fallback and no receive
\* block, and the block ends in that return code for every transferred value.
C4_NeitherIsSelectorInvalid ==
    (phase = "halted" /\ PublicOfTy("Fallback") \cup PublicOfTy("Receive") = {}) =>
        /\ dispatch.cfg.blocks[TheBlock("fb_or_recv") + 1].instr
              = <<ReturnCode("FunctionSelectorInvalid")>>
        /\ BlocksNamed("fallback") = {}
        /\ BlocksNamed("receive") = {}
        /\ LET x == RunFrom(TheBlock("fb_or_recv"), rt) IN
              x.status = "return_code" /\ x.trace = <<TheBlock("fb_or_recv")>> /\ x.calls = <<>>

\* C4's case: a call with value > 0 to a contract whose only fallback is not public
C4_Witness ==
    /\ phase = "halted"
    /\ PublicOfTy("Fallback") \cup PublicOfTy("Receive") = {}
    /\ \E i \in 1..Len(all_cfg) : all_cfg[i].ty = "Fallback" /\ ~all_cfg[i].public
    /\ ~ValueIsZero
    /\ RunFrom(TheBlock("fb_or_recv"), rt).status = "return_code"

\* the Switch instructions of the dispatch CFG, as <<block, index>>
Switches ==
    UNION {{<<b, i>> : i \in {j \in 1..Len(dispatch.cfg.blocks[b + 1].instr) :
                                 dispatch.cfg.blocks[b + 1].instr[j].op = "Switch"}}
            : b \in 0..(Len(dispatch.cfg.blocks) - 1)}

TheSwitch ==
    LET p == CHOOSE q \in Switches : TRUE IN dispatch.cfg.blocks[p[1] + 1].instr[p[2]]

\* the CFG whose selector is the first SelectorLength bytes of the input
Selected ==
    {msg_no \in Dispatched :
        all_cfg[msg_no + 1].selector = SubSeq(rt.args[1], 1, SelectorLength)}

\* C5: the switch has one case for each public function or constructor and no
\* other; an input that starts with such a CFG's selector is switched to that
\* CFG's dispatch_case block, every other input to fb_or_recv.
C5_SwitchCases ==
    phase = "halted" =>
        /\ Cardinality(Switches) = 1
        /\ Len(TheSwitch.cases) = Cardinality(Dispatched)
        /\ \A msg_no \in 0..(Len(all_cfg) - 1) :
              BlocksNamed("dispatch_case_" \o ToString(msg_no))
                  = {TheSwitch.cases[i].block : i \in
                        {j \in 1..Len(TheSwitch.cases) : msg_no \in Dispatched
                            /\ TheSwitch.cases[j].case.n
                                  = Eval(TheSwitch.cond,
                                         <<all_cfg[msg_no + 1].selector, Nat32(0)>>, <<>>)}}
        /\ TheSwitch.default = TheBlock("fb_or_recv")
        /\ InputLen >= SelectorLength =>
              SwitchTarget(TheSwitch, rt.args, <<>>)
                  = IF Selected = {} THEN TheBlock("fb_or_recv")
                    ELSE TheBlock("dispatch_case_" \o ToString(CHOOSE m \in Selected : TRUE))

\* C5's case: a contract with a dispatched CFG and a CFG that is not, called with
\* an input that holds a selector no case has
C5_Witness ==
    /\ phase = "halted"
    /\ Dispatched # {}
    /\ \E i \in 1..Len(all_cfg) : all_cfg[i].ty = "Function" /\ ~all_cfg[i].public
    /\ InputLen >= SelectorLength
    /\ Selected = {}
    /\ SwitchTarget(TheSwitch, rt.args, <<>>) = TheBlock("fb_or_recv")

\* C6: every call ends in exactly one of a call into the matched function, into
\* fallback or into receive, the FunctionSelectorInvalid return code, or the
\* assertion failure; never at the end of a block without a terminator.
C6_DispatchTotal ==
    phase = "halted" =>
        \/ exec.status = "assert_failure" /\ exec.calls = <<>>
        \/ exec.status = "return_code" /\ exec.calls = <<>>
        \/ /\ exec.status \notin {"unterminated", "out_of_bounds"}
           /\ Len(exec.calls) = 1
           /\ exec.calls[1] \in Selected \cup PublicOfTy("Fallback") \cup PublicOfTy("Receive")

\* C7: with a public non-payable function foo and no fallback or receive, a call
\* with value 0 whose input is exactly foo's selector executes a call into foo's
\* CFG in foo's dispatch case.
C7_FooReached ==
    \A foo \in 0..(MaxCfgs - 1) :
        ( /\ phase = "halted"
          /\ foo \in Dispatched
          /\ all_cfg[foo + 1].ty = "Function"
          /\ all_cfg[foo + 1].nonpayable
          /\ PublicOfTy("Fallback") \cup PublicOfTy("Receive") = {}
          /\ rt.args[1] = all_cfg[foo + 1].selector
          /\ ValueIsZero )
        => /\ exec.calls = <<foo>>
           /\ \E i \in 1..Len(exec.trace) :
                 exec.trace[i] \in BlocksNamed("dispatch_case_" \o ToString(foo))

----------------------------------------------------------------------------
(* codegen/encoding/scale_encoding.rs: the compact encoding of a size.     *)

\* 0x40000000: the literal of the first comparison
CompactLimit == 1073741824

\* 0x40: the literal of the comparison in block prepare
CompactSmall == 64

\* 0x4000: the literal of the comparison in block medium_or_big
CompactMedium == 16384

\* the three blocks that write: the tag each ors in (none in small) and the width it sets
write_block(s, block, buffer, offset, mul, tag, width, size_variable, done) ==
    LET s1 == [s EXCEPT !.cfg = set_basic_block(@, block)]
        value == IF tag = 0 THEN mul
                 ELSE BitwiseOr(U32, mul, NumberLiteral(U32, Nat32(tag)))
        s2 == IF buffer # None /\ offset # None
              THEN ControlFlowGraph_add(s1, WriteBuffer(buffer, offset, value))
              ELSE s1
        s3 == ControlFlowGraph_add(s2, Set(size_variable, NumberLiteral(U32, Nat32(width))))
    IN  ControlFlowGraph_add(s3, Branch(done))

\* encode_compact on the builder state s (vartab, cfg): the state afterwards, with
\* the expression it returns in ret
encode_compact(s, expr, buffer, offset) ==
    LET small == Len(s.cfg.blocks)
        medium == small + 1
        medium_or_big == small + 2
        big == small + 3
        done == small + 4
        fail == small + 5
        prepare == small + 6
        s0 == [s EXCEPT !.cfg =
                 new_basic_block(new_basic_block(new_basic_block(new_basic_block(
                 new_basic_block(new_basic_block(new_basic_block(@,
                     "small"), "medium"), "medium_or_big"), "big"), "done"), "fail"), "prepare")]
        s1 == ControlFlowGraph_add(s0,
                 BranchCond(UnsignedMore(expr, NumberLiteral(U32, Nat32(CompactLimit))),
                            fail, prepare))
        s2 == ControlFlowGraph_add([s1 EXCEPT !.cfg = set_basic_block(@, fail)], AssertFailure)
        s3 == ControlFlowGraph_add([s2 EXCEPT !.cfg = set_basic_block(@, prepare)],
                 BranchCond(UnsignedMore(expr, NumberLiteral(U32, Nat32(CompactSmall))),
                            medium_or_big, small))
        s4 == ControlFlowGraph_add([s3 EXCEPT !.cfg = set_basic_block(@, medium_or_big)],
                 BranchCond(UnsignedMore(expr, NumberLiteral(U32, Nat32(CompactMedium))),
                            big, medium))
        s5 == [s4 EXCEPT !.vartab = new_dirty_tracker(@)]
        size_variable == s5.vartab.next_id
        s6 == [s5 EXCEPT !.vartab = temp_anonymous(@, U32)]
        four == NumberLiteral(U32, Nat32(4))
        mul == Multiply(U32, FALSE, expr, four)
        s7 == write_block(s6, small, buffer, offset, mul, 0, 1, size_variable, done)
        s8 == write_block(s7, medium, buffer, offset, mul, 1, 2, size_variable, done)
        s9 == write_block(s8, big, buffer, offset, mul, 2, 4, size_variable, done)
        s10 == [s9 EXCEPT !.cfg = set_phis(set_basic_block(@, done), done, dirty_top(s9.vartab)),
                          !.vartab = pop_dirty_tracker(@)]
    IN  [vartab |-> s10.vartab, cfg |-> s10.cfg, ret |-> Variable(U32, size_variable)]

\* ScaleEncoding::size_width
size_width(s, size) == encode_compact(s, size, None, None)

\* ScaleEncoding::encode_size
encode_size(s, expr, buffer, offset) == encode_compact(s, expr, buffer, offset)

----------------------------------------------------------------------------
(* The compact-size specification: a function that lowers one size, with   *)
(* size_width or with encode_size, and then runs on a size.                *)

\* the arguments of the lowered function: the size, the buffer, the offset
SizeArg == FunctionArg(U32, 0)

BufferArg == FunctionArg(DynamicBytes, 1)

OffsetArg == FunctionArg(U32, 2)

\* hi * 2^16 + lo for any integer lo, as a 32-bit value
Around(hi, lo) == U(hi + (lo \div Limb), lo % Limb)

\* the sizes to run on: zero, the three boundaries and 2^32 - 1, and their neighbours
Sizes ==
    {Around(0, d) : d \in 0..MaxDelta}
    \cup {Around(0, CompactSmall + d) : d \in (-MaxDelta)..MaxDelta}
    \cup {Around(0, CompactMedium + d) : d \in (-MaxDelta)..MaxDelta}
    \cup {Around(CompactLimit \div Limb, d) : d \in (-MaxDelta)..MaxDelta}
    \cup {Around(Limb - 1, Limb - 1 - d) : d \in 0..MaxDelta}

InitCompact ==
    /\ all_cfg = <<>>
    /\ phase = "init"
    /\ dispatch = None
    /\ frag \in {[op |-> op] : op \in {"size_width", "encode_size"}}
    /\ rt = None
    /\ exec = None

\* a function is lowered whose body is the size's fragment; where the fragment
\* ends, in block done, the function returns
LowerSize ==
    /\ phase = "init"
    /\ LET s == [vartab |-> Vartable_new(0), cfg |-> ControlFlowGraph_new("f")]
           made == IF frag.op = "size_width" THEN size_width(s, SizeArg)
                   ELSE encode_size(s, SizeArg, BufferArg, OffsetArg)
           end == ControlFlowGraph_add(made, ReturnCode("Success"))
       IN  frag' = [op |-> frag.op, vartab |-> end.vartab, cfg |-> end.cfg, ret |-> made.ret]
    /\ phase' = "built"
    /\ UNCHANGED <<all_cfg, dispatch, rt, exec>>

\* the lowered function is called on a size
InvokeSize ==
    /\ phase = "built"
    /\ \E n \in Sizes, offset \in 0..MaxOffset, check \in BOOLEAN :
          rt' = [args |-> <<n, <<>>, Nat32(offset)>>, math_overflow_check |-> check]
    /\ exec' = ExecStart(0)
    /\ phase' = "running"
    /\ UNCHANGED <<all_cfg, dispatch, frag>>

\* the lowered function executes one instruction
SizeStep ==
    /\ phase = "running"
    /\ exec' = Step(frag.cfg, exec, rt)
    /\ phase' = IF exec'.status = "running" THEN "running" ELSE "halted"
    /\ UNCHANGED <<all_cfg, dispatch, frag, rt>>

NextCompact == LowerSize \/ InvokeSize \/ SizeStep

SpecCompact == InitCompact /\ [][NextCompact]_vars

----------------------------------------------------------------------------
(* ScaleEncoding::get_encoding_size of a string or of dynamic bytes, by an *)
(* encoder that is packed or not, and the function lowered with it run on  *)
(* a payload.                                                              *)

\* the longest payload is 0x40 + MaxPayloadDelta bytes
MaxPayloadDelta == 1

\* increment_by of the encoding module: expr + value as a U32 expression
increment_by(expr, value) == Add(U32, FALSE, expr, value)

\* ScaleEncoding::is_packed
is_packed(self) == self.packed_encoder

\* get_encoding_size with encode_compact called whatever is_packed says
get_encoding_size_unpacked(self, s, expr, ty) ==
    LET length == Builtin(<<U32>>, "ArrayLength", <<expr>>)
        made == encode_compact(s, length, None, None)
    IN  [made EXCEPT !.ret = increment_by(made.ret, length)]

\* ScaleEncoding::get_encoding_size, for Type::String | Type::DynamicBytes
get_encoding_size(self, s, expr, ty) ==
    LET length == Builtin(<<U32>>, "ArrayLength", <<expr>>) IN
    IF is_packed(self) THEN [vartab |-> s.vartab, cfg |-> s.cfg, ret |-> length]
    ELSE LET made == encode_compact(s, length, None, None)
         IN  [made EXCEPT !.ret = increment_by(made.ret, length)]

\* the payload lengths to run on: the shortest ones and those around 0x40
PayloadLens ==
    (0..MaxPayloadDelta)
    \cup ((CompactSmall - MaxPayloadDelta)..(CompactSmall + MaxPayloadDelta))

InitEncodingSize ==
    /\ all_cfg = <<>>
    /\ phase = "init"
    /\ dispatch = None
    /\ frag \in {[op |-> "get_encoding_size", packed_encoder |-> p, ty |-> ty] :
                    p \in BOOLEAN, ty \in {String, DynamicBytes}}
    /\ rt = None
    /\ exec = None

\* a function is lowered that computes the encoding size of its first argument
LowerEncodingSize ==
    /\ phase = "init"
    /\ LET s == [vartab |-> Vartable_new(0), cfg |-> ControlFlowGraph_new("f")]
           made == get_encoding_size(frag, s, FunctionArg(frag.ty, 0), frag.ty)
           end == ControlFlowGraph_add(made, ReturnCode("Success"))
       IN  frag' = [op |-> frag.op, packed_encoder |-> frag.packed_encoder, ty |-> frag.ty,
                    vartab |-> end.vartab, cfg |-> end.cfg, ret |-> made.ret]
    /\ phase' = "built"
    /\ UNCHANGED <<all_cfg, dispatch, rt, exec>>

\* the lowered function is called on a payload
InvokeEncodingSize ==
    /\ phase = "built"
    /\ \E len \in PayloadLens, check \in BOOLEAN :
          rt' = [args |-> <<[i \in 1..len |-> 0]>>, math_overflow_check |-> check]
    /\ exec' = ExecStart(0)
    /\ phase' = "running"
    /\ UNCHANGED <<all_cfg, dispatch, frag>>

NextEncodingSize == LowerEncodingSize \/ InvokeEncodingSize \/ SizeStep

SpecEncodingSize == InitEncodingSize /\ [][NextEncodingSize]_vars

----------------------------------------------------------------------------
(* ScaleEncoding::abi_decode: a temporary per type to decode, and one      *)
(* AbiDecode instruction that fills them.                                   *)

\* how many types are decoded at most
MaxTypes == 3
\* how many variables the table holds at most before the call
MaxPreVars == 2

Parameter(ty) == [ty |-> ty, id |-> None, indexed |-> FALSE, readonly |-> FALSE]

AbiDecode(res, tys, data, data_len) ==
    [op |-> "AbiDecode", res |-> res, selector |-> None, exception_block |-> None,
     tys |-> tys, data |-> data, data_len |-> data_len]

\* the loop with the temporary taken once, before it
RECURSIVE decode_items_one_temp(_, _)
decode_items_one_temp(vartab, types) ==
    IF types = <<>>
    THEN [vartab |-> vartab, returns |-> <<>>, var_nos |-> <<>>, decode_params |-> <<>>]
    ELSE LET item == Head(types)
             var_no == vartab.next_id
             rest == decode_items_one_temp(vartab, Tail(types))
         IN  [vartab |-> temp_anonymous(vartab, item),
              returns |-> <<Variable(item, var_no)>> \o rest.returns,
              var_nos |-> <<var_no>> \o rest.var_nos,
              decode_params |-> <<Parameter(item)>> \o rest.decode_params]

\* the loop over the types: each gets a temporary of its own, in order
RECURSIVE decode_items(_, _)
decode_items(vartab, types) ==
    IF types = <<>>
    THEN [vartab |-> vartab, returns |-> <<>>, var_nos |-> <<>>, decode_params |-> <<>>]
    ELSE LET item == Head(types)
             var_no == vartab.next_id
             rest == decode_items(temp_anonymous(vartab, item), Tail(types))
         IN  [vartab |-> rest.vartab,
              returns |-> <<Variable(item, var_no)>> \o rest.returns,
              var_nos |-> <<var_no>> \o rest.var_nos,
              decode_params |-> <<Parameter(item)>> \o rest.decode_params]

\* ScaleEncoding::abi_decode on the builder state s: the state afterwards, with
\* the expressions it returns in ret
abi_decode(self, s, buffer, types, buffer_size) ==
    LET items == decode_items(s.vartab, types)
        s1 == ControlFlowGraph_add([s EXCEPT !.vartab = items.vartab],
                 AbiDecode(items.var_nos, items.decode_params, buffer, buffer_size))
    IN  [vartab |-> s1.vartab, cfg |-> s1.cfg, ret |-> items.returns]

RECURSIVE SeqsUpTo(_, _)
SeqsUpTo(S, n) ==
    IF n = 0 THEN {<<>>}
    ELSE LET shorter == SeqsUpTo(S, n - 1)
         IN  shorter \cup {Append(q, x) : q \in shorter, x \in S}

RECURSIVE temps(_, _)
temps(vartab, n) == IF n = 0 THEN vartab ELSE temps(temp_anonymous(vartab, U32), n - 1)

\* a function under construction: some variables allocated, some block current
InitDecode ==
    /\ all_cfg = <<>>
    /\ phase = "init"
    /\ dispatch = None
    /\ \E types \in SeqsUpTo({U32, String, Uint(8)}, MaxTypes), pre \in 0..MaxPreVars :
          frag = [op |-> "abi_decode", packed_encoder |-> FALSE, types |-> types,
                  vartab |-> temps(Vartable_new(0), pre),
                  cfg |-> ControlFlowGraph_new("f")]
    /\ rt = None
    /\ exec = None

\* the function decodes its first argument, whose length is its second; frag
\* keeps the builder state of before the call in `before`
LowerDecode ==
    /\ phase = "init"
    /\ LET made == abi_decode(frag, [vartab |-> frag.vartab, cfg |-> frag.cfg],
                              FunctionArg(DynamicBytes, 0), frag.types, FunctionArg(U32, 1))
       IN  frag' = [op |-> frag.op, packed_encoder |-> FALSE, types |-> frag.types,
                    before |-> [vartab |-> frag.vartab, cfg |-> frag.cfg],
                    vartab |-> made.vartab, cfg |-> made.cfg, ret |-> made.ret]
    /\ phase' = "built"
    /\ UNCHANGED <<all_cfg, dispatch, rt, exec>>

NextDecode == LowerDecode

SpecDecode == InitDecode /\ [][NextDecode]_vars

----------------------------------------------------------------------------
(* codegen/statements/try_catch.rs: the lowering of a try-catch statement. *)
(* The bodies of the statement are lists of abstract statements: an        *)
(* assignment to a variable of the enclosing function, or a return.        *)

\* how many times the clause loop of insert_catch_clauses is followed at most
MaxIterations == 3

Some(v) == [some |-> v]

\* F applied to the value of v: the value is computed once, however often F uses it
Let(v, F(_)) == CHOOSE r \in {F(x) : x \in {v}} : TRUE

\* revert::ERROR_SELECTOR, the selector of Error(string): 0x08c379a0
ERROR_SELECTOR == U(2243, 31136)

\* revert::PANIC_SELECTOR, the selector of Panic(uint256): 0x4e487b71
PANIC_SELECTOR == U(20040, 31601)

\* the symbol-table positions of the variables the statement names: a variable
\* of the enclosing function (x), the variable bound by returns (..), those bound
\* by the error clauses (clause + i for clause i) and by the catch-all; and the
\* first id the function's Vartable hands out
Pos == [x |-> 0, ret |-> 1, clause |-> 1, catch_all |-> 4, first_temp |-> 5]

Assign(pos) == [stmt |-> "Assign", pos |-> pos]

ReturnStmt == [stmt |-> "Return"]

\* Statement::reachable
reachable(stmt) == stmt.stmt # "Return"

\* codegen::statement
statement(s, stmt) ==
    IF stmt.stmt = "Assign"
    THEN ControlFlowGraph_add(s, Set(stmt.pos, NumberLiteral(U32, Nat32(1))))
    ELSE ControlFlowGraph_add(s, Return)

\* for stmt in stmts { statement(stmt, ..); reachable = stmt.reachable(); }
\* if reachable { cfg.add(vartab, Instr::Branch { block: finally_block }); }
RECURSIVE statements(_, _)
statements(s, stmts) ==
    IF stmts = <<>> THEN s ELSE statements(statement(s, Head(stmts)), Tail(stmts))

last_reachable(stmts) == IF stmts = <<>> THEN TRUE ELSE reachable(stmts[Len(stmts)])

body_then_finally(s, stmts, finally_block) ==
    LET s1 == statements(s, stmts)
    IN  IF last_reachable(stmts) THEN ControlFlowGraph_add(s1, Branch(finally_block)) ELSE s1

\* polkadot::RetCodeCheckBuilder::insert: a block per outcome of the call, and
\* the switch on the return code into them
RetCodeCheckBuilder_insert(s, success_var) ==
    LET success == Len(s.cfg.blocks)
        revert == success + 1
        error_no_data == success + 2
        s1 == [s EXCEPT !.cfg = new_basic_block(new_basic_block(new_basic_block(@,
                                    "ret_success"), "ret_revert"), "ret_no_data")]
        cases == <<[case |-> NumberLiteral(U32, Nat32(0)), block |-> success],
                   [case |-> NumberLiteral(U32, Nat32(2)), block |-> revert]>>
        s2 == ControlFlowGraph_add(s1, Switch(Variable(U32, success_var), cases, error_no_data))
    IN  [s2 EXCEPT !.cases = [success |-> success, revert |-> revert,
                              error_no_data |-> error_no_data]]

\* exec_try: the call, and the blocks of its outcomes in s.cases
exec_try(s, try_stmt) ==
    LET success == s.vartab.next_id
        s1 == [s EXCEPT !.vartab = temp_name(@, "success", Bool)]
    IN  IF try_stmt.expr = "ExternalFunctionCall"
        THEN LET s2 == ControlFlowGraph_add(s1, ExternalCall(success))
                 s3 == RetCodeCheckBuilder_insert(s2, success)
             IN  [s3 EXCEPT !.return_types =
                                [i \in 1..Len(try_stmt.returns) |-> try_stmt.returns[i].ty]]
        ELSE LET bound == try_stmt.returns # <<>> /\ try_stmt.returns[1].pos # None
                 address_res == IF bound THEN try_stmt.returns[1].pos.some
                                ELSE s1.vartab.next_id
                 s2 == IF bound THEN s1
                       ELSE [s1 EXCEPT !.vartab = temp_anonymous(@, Contract(0))]
                 s3 == ControlFlowGraph_add(s2, Constructor(success, address_res))
                 s4 == RetCodeCheckBuilder_insert(s3, success)
             IN  [s4 EXCEPT !.return_types = <<>>]

\* the variables the return values go to: the bound one, or a temporary
RECURSIVE return_vars(_, _)
return_vars(vartab, returns) ==
    IF returns = <<>> THEN [vartab |-> vartab, res |-> <<>>]
    ELSE LET ret == Head(returns)
             anon == ret.pos = None
             rest == return_vars(IF anon THEN temp_anonymous(vartab, ret.ty) ELSE vartab,
                                 Tail(returns))
         IN  [vartab |-> rest.vartab,
              res |-> <<IF anon THEN vartab.next_id ELSE ret.pos.some>> \o rest.res]

\* res.iter().zip(decoded): a Set per pair
RECURSIVE set_each(_, _, _)
set_each(s, res, decoded) ==
    IF res = <<>> \/ decoded = <<>> THEN s
    ELSE set_each(ControlFlowGraph_add(s, Set(Head(res), Head(decoded))), Tail(res), Tail(decoded))

\* encoding::abi_decode of the Polkadot target, on a builder state with more fields
decode(s, buffer, tys) ==
    LET made == abi_decode([packed_encoder |-> FALSE], [vartab |-> s.vartab, cfg |-> s.cfg],
                           buffer, tys, None)
    IN  [state |-> [s EXCEPT !.vartab = made.vartab, !.cfg = made.cfg], decoded |-> made.ret]

\* a failure path with its data left where the call put it
failure_path_unassigned(s, block, error_ret_data_var, expr, catch_block) ==
    ControlFlowGraph_add([s EXCEPT !.cfg = set_basic_block(@, block)], Branch(catch_block))

\* each failure path of insert_try_expression: in the block of the outcome, the
\* error data is assigned and control goes to catch
failure_path(s, block, error_ret_data_var, expr, catch_block) ==
    ControlFlowGraph_add(
        ControlFlowGraph_add([s EXCEPT !.cfg = set_basic_block(@, block)],
                             Set(error_ret_data_var, expr)),
        Branch(catch_block))

\* insert_try_expression
insert_try_expression(s, try_stmt, ok_block, catch_block) ==
    Let(exec_try(s, try_stmt), LAMBDA s1 :
    Let([s1 EXCEPT !.error_ret_data_var = s1.vartab.next_id,
                   !.vartab = new_dirty_tracker(temp_name(@, "error_ret_data", DynamicBytes))],
        LAMBDA s2 :
    Let(failure_path(
            failure_path(s2, s2.cases.error_no_data, s2.error_ret_data_var,
                         AllocDynamicBytes(DynamicBytes, NumberLiteral(U32, Nat32(0))),
                         catch_block),
            s2.cases.revert, s2.error_ret_data_var, ReturnData, catch_block),
        LAMBDA s4 :
    Let([s4 EXCEPT !.vartab = set_dirty(@, s4.error_ret_data_var)], LAMBDA s5 :
    Let([s5 EXCEPT !.cfg = set_basic_block(set_phis(@, catch_block, dirty_top(s5.vartab)),
                                           s5.cases.success),
                   !.vartab = pop_dirty_tracker(@)],
        LAMBDA s6 :
    ControlFlowGraph_add(
        IF try_stmt.returns # <<>>
        THEN Let(return_vars(s6.vartab, try_stmt.returns), LAMBDA rv :
             Let(decode([s6 EXCEPT !.vartab = rv.vartab], ReturnData, s6.return_types),
                 LAMBDA d : set_each(d.state, rv.res, d.decoded)))
        ELSE s6,
        Branch(ok_block))
    )))))

\* insert_success_code_block
insert_success_code_block(s, try_stmt, ok_block, finally_block) ==
    body_then_finally([s EXCEPT !.cfg = set_basic_block(@, ok_block)],
                      try_stmt.ok_stmt, finally_block)

\* insert_catchall_clause_code_block
insert_catchall_clause_code_block(s, try_stmt, finally_block, error_data_buf) ==
    LET clause == try_stmt.catch_all
        s1 == IF clause.param_pos # None
              THEN ControlFlowGraph_add(s, Set(clause.param_pos.some, error_data_buf))
              ELSE s
    IN  body_then_finally(s1, clause.stmt, finally_block)

\* try_stmt.errors.iter().enumerate().next()
enumerate_next(errors) ==
    IF errors = <<>> THEN None ELSE Some([n |-> 0, clause |-> errors[1]])

\* insert_catch_clauses up to its clause loop (pc "while"), or up to its return
\* when there is no error clause (pc "return")
insert_catch_clauses_enter(s) ==
    LET buffer == Variable(DynamicBytes, s.error_ret_data_var)
        no_match_err_id == Len(s.cfg.blocks)
        catch_error_0 == Len(s.cfg.blocks) + 1
        ret_data_len == Builtin(<<U32>>, "ArrayLength", <<buffer>>)
        selector_data_len == NumberLiteral(U32, Nat32(4))
        cond_enough_data == More(ret_data_len, selector_data_len)
    IN  IF s.try_stmt.errors = <<>>
        THEN [insert_catchall_clause_code_block(
                  [s EXCEPT !.cfg = set_basic_block(@, s.catch_block)],
                  s.try_stmt, s.finally_block, buffer)
                 EXCEPT !.pc = "return"]
        ELSE [ControlFlowGraph_add(
                  [s EXCEPT !.cfg = new_basic_block(
                                        new_basic_block(set_basic_block(@, s.catch_block),
                                                        "no_match_err_id"),
                                        "catch_error_0")],
                  BranchCond(cond_enough_data, catch_error_0, no_match_err_id))
                 EXCEPT !.no_match_err_id = no_match_err_id,
                        !.next_clause = Some(catch_error_0),
                        !.pc = "while"]

\* the body of the clause loop, for the pair (n, clause) the loop head yields
clause_iteration(s, n, clause) ==
    LET buffer == Variable(DynamicBytes, s.error_ret_data_var)
        more == n + 1 < Len(s.try_stmt.errors)
        next_clause == IF more THEN Some(Len(s.cfg.blocks)) ELSE None
        err_id == NumberLiteral(Bytes(4), IF clause.param.ty = String THEN ERROR_SELECTOR
                                          ELSE PANIC_SELECTOR)
        offset == NumberLiteral(U32, Nat32(0))
        err_selector == Builtin(<<Bytes(4)>>, "ReadFromBuffer", <<buffer, offset>>)
        cond == Equal(err_selector, err_id)
    IN  Let([s EXCEPT !.cfg = IF more
                              THEN new_basic_block(set_basic_block(@, s.next_clause.some),
                                                   "catch_error_" \o ToString(n + 1))
                              ELSE set_basic_block(@, s.next_clause.some)],
            LAMBDA s2 :
        Let([error_var |-> IF clause.param_pos # None THEN clause.param_pos.some
                           ELSE s2.vartab.next_id,
             match_err_id |-> Len(s2.cfg.blocks)],
            LAMBDA l :
        Let(ControlFlowGraph_add(
                [s2 EXCEPT !.vartab = IF clause.param_pos # None THEN @
                                      ELSE temp_anonymous(@, clause.param.ty),
                           !.cfg = new_basic_block(@, "match_err_id")],
                BranchCond(cond, l.match_err_id,
                           IF next_clause # None THEN next_clause.some ELSE s.no_match_err_id)),
            LAMBDA s5 :
        Let(decode([s5 EXCEPT !.cfg = set_basic_block(@, l.match_err_id)], buffer,
                   <<Bytes(4), clause.param.ty>>),
            LAMBDA d :
        [body_then_finally(ControlFlowGraph_add(d.state, Set(l.error_var, d.decoded[2])),
                           clause.stmt, s.finally_block)
            EXCEPT !.next_clause = next_clause, !.iterations = @ + 1]))))

\* insert_catch_clauses after its clause loop
insert_catch_clauses_leave(s) ==
    LET buffer == Variable(DynamicBytes, s.error_ret_data_var)
        s1 == [s EXCEPT !.cfg = set_basic_block(@, s.no_match_err_id)]
    IN  IF s.try_stmt.catch_all = None
        THEN ControlFlowGraph_add(s1, AssertFailureWith(buffer))
        ELSE insert_catchall_clause_code_block(s1, s.try_stmt, s.finally_block, buffer)

\* the positions try_catch removes from the set of the finally block
param_positions(try_stmt) ==
    (IF try_stmt.catch_all # None /\ try_stmt.catch_all.param_pos # None
        THEN {try_stmt.catch_all.param_pos.some} ELSE {})
    \cup {try_stmt.errors[i].param_pos.some :
             i \in {j \in 1..Len(try_stmt.errors) : try_stmt.errors[j].param_pos # None}}

\* try_catch after insert_catch_clauses has returned
try_catch_leave(s) ==
    LET set == dirty_top(s.vartab) \ param_positions(s.try_stmt)
    IN  [s EXCEPT !.vartab = pop_dirty_tracker(@),
                  !.cfg = set_basic_block(set_phis(@, s.finally_block, set), s.finally_block),
                  !.pc = "returned"]

\* try_catch up to the call of insert_catch_clauses, and into it
try_catch_enter(s0) ==
    Let([s0 EXCEPT !.cfg = new_basic_block(new_basic_block(new_basic_block(@,
                                "ok"), "catch"), "finally"),
                   !.ok_block = Len(s0.cfg.blocks),
                   !.catch_block = Len(s0.cfg.blocks) + 1,
                   !.finally_block = Len(s0.cfg.blocks) + 2],
        LAMBDA s1 :
    Let(insert_success_code_block(
            [insert_try_expression(s1, s1.try_stmt, s1.ok_block, s1.catch_block)
                EXCEPT !.vartab = new_dirty_tracker(@)],
            s1.try_stmt, s1.ok_block, s1.finally_block),
        LAMBDA s4 : insert_catch_clauses_enter(s4)))

\* the builder state a try-catch statement is lowered in, with the local
\* variables of try_catch and insert_catch_clauses
TryState(try_stmt) ==
    [op |-> "try_catch", try_stmt |-> try_stmt, pc |-> "entry",
     vartab |-> Vartable_new(Pos.first_temp), cfg |-> ControlFlowGraph_new("f"),
     ok_block |-> None, catch_block |-> None, finally_block |-> None,
     cases |-> None, return_types |-> <<>>, error_ret_data_var |-> None,
     no_match_err_id |-> None, next_clause |-> None, iterations |-> 0]

\* the statements sema lets through.  Bodies: empty, an assignment, an assignment
\* and a return.  Error clauses: Error(string) and Panic(uint256), each at most
\* once, each binding its parameter or not.  The call tried, with the variables
\* its return values are bound to.  At least one catch clause.
TryStmts ==
    LET Bodies == {<<>>, <<Assign(Pos.x)>>, <<Assign(Pos.x), ReturnStmt>>}
        ErrorTys == {<<>>, <<String>>, <<Uint(256)>>,
                     <<String, Uint(256)>>, <<Uint(256), String>>}
        ErrorLists ==
            UNION {{[i \in 1..Len(tys) |->
                        [param |-> [ty |-> tys[i]],
                         param_pos |-> IF bound[i] THEN Some(Pos.clause + i) ELSE None,
                         stmt |-> stmts[i]]] :
                       bound \in [1..Len(tys) -> BOOLEAN], stmts \in [1..Len(tys) -> Bodies]} :
                   tys \in ErrorTys}
        CatchAlls ==
            {None} \cup {[param_pos |-> pos, stmt |-> stmt] :
                            pos \in {None, Some(Pos.catch_all)}, stmt \in Bodies}
        Calls ==
            {[expr |-> "ExternalFunctionCall", returns |-> returns] :
                returns \in {<<>>, <<[pos |-> Some(Pos.ret), ty |-> U32]>>,
                             <<[pos |-> None, ty |-> U32]>>}}
            \cup {[expr |-> "Constructor", returns |-> returns] :
                returns \in {<<>>, <<[pos |-> Some(Pos.ret), ty |-> Contract(0)]>>}}
    IN  {t \in {[expr |-> call.expr, returns |-> call.returns, ok_stmt |-> ok_stmt,
                 errors |-> errors, catch_all |-> catch_all] :
                   call \in Calls, ok_stmt \in Bodies, errors \in ErrorLists,
                   catch_all \in CatchAlls} :
            t.errors # <<>> \/ t.catch_all # None}

InitTry ==
    /\ all_cfg = <<>>
    /\ phase = "init"
    /\ dispatch = None
    /\ frag \in {[op |-> "try_catch", try_stmt |-> try_stmt] : try_stmt \in TryStmts}
    /\ rt = None
    /\ exec = None

\* try_catch is called and runs to the head of the clause loop or, when there is
\* no error clause, to its return
TryCatch ==
    /\ phase = "init"
    /\ \E s \in {try_catch_enter(TryState(frag.try_stmt))} :
          IF s.pc = "return"
          THEN frag' = try_catch_leave(s) /\ phase' = "done"
          ELSE frag' = s /\ phase' = "clauses"
    /\ UNCHANGED <<all_cfg, dispatch, rt, exec>>

\* the head of the clause loop is evaluated: the loop is left, and try_catch
\* returns (done); or the loop body is run; or next_clause.unwrap() finds None
\* and the compiler aborts (aborted)
WhileLet ==
    /\ phase = "clauses"
    /\ frag.iterations < MaxIterations
    /\ LET it == enumerate_next(frag.try_stmt.errors)
       IN  IF it = None
           THEN frag' = Let(insert_catch_clauses_leave(frag), LAMBDA s : try_catch_leave(s))
                /\ phase' = "done"
           ELSE IF frag.next_clause = None
           THEN frag' = [frag EXCEPT !.pc = "panic"] /\ phase' = "aborted"
           ELSE frag' = clause_iteration(frag, it.some.n, it.some.clause) /\ phase' = "clauses"
    /\ UNCHANGED <<all_cfg, dispatch, rt, exec>>

NextTry == TryCatch \/ WhileLet

SpecTry == InitTry /\ [][NextTry]_vars

----------------------------------------------------------------------------
(* lir/vartable.rs and lir/converter/vartable.rs: the variable table of a  *)
(* function in the lower IR, made from the codegen table and then extended *)
(* with temporaries.  vars is the IndexMap as a function from the ids it   *)
(* holds; the order of its entries plays no part here.                     *)

\* the largest id of a codegen variable, and of a set_tmp call
MaxVarId == 3

\* how many temporaries new_temp makes at most
MaxNewTemps == 3

TEMP_PREFIX == "temp.ssa_ir."

\* the lir type of an ast type
lower_ast_type(ty) == [lir |-> ty]

Var(id, ty, name) == [id |-> id, ty |-> ty, name |-> name]

Operand_Id(id) == [operand |-> "Id", id |-> id]

\* IndexMap::insert: the entry of the key is added or replaced
IndexMap_insert(map, key, value) ==
    [k \in DOMAIN map \cup {key} |-> IF k = key THEN value ELSE map[k]]

max(a, b) == IF a >= b THEN a ELSE b

RECURSIVE max_id_of(_, _)
max_id_of(ids, max_id) ==
    IF ids = {} THEN max_id
    ELSE LET id == CHOOSE i \in ids : TRUE
         IN  max_id_of(ids \ {id}, max(max_id, id))

to_vartable(tab) ==
    [vars |-> [id \in DOMAIN tab |-> Var(id, lower_ast_type(tab[id].ty), tab[id].name)],
     args |-> <<>>,
     next_id |-> max_id_of(DOMAIN tab, 0) + 1]

\* set_tmp with the id after the temporary as the next id, whatever it was
set_tmp_last_wins(self, id, ty) ==
    [self EXCEPT !.next_id = id + 1,
                 !.vars = IndexMap_insert(@, id, Var(id, ty, TEMP_PREFIX \o ToString(id)))]

set_tmp(self, id, ty) ==
    [self EXCEPT !.next_id = max(@, id + 1),
                 !.vars = IndexMap_insert(@, id, Var(id, ty, TEMP_PREFIX \o ToString(id)))]

new_temp(self, ty) ==
    [vartable |-> [self EXCEPT
                      !.vars = IndexMap_insert(@, self.next_id,
                                  Var(self.next_id, ty, TEMP_PREFIX \o ToString(self.next_id))),
                      !.next_id = @ + 1],
     op |-> Operand_Id(self.next_id)]

\* the types of the temporaries
LirTypes == {lower_ast_type(U32), lower_ast_type(Bool)}

\* the codegen tables: variables of one type under some ids
Tabs ==
    {[id \in ids |-> [ty |-> U32, name |-> "v" \o ToString(id)]] :
        ids \in SUBSET (0..MaxVarId)}

\* a codegen table to convert; no lir table yet
InitVartable ==
    /\ all_cfg = <<>>
    /\ phase = "init"
    /\ dispatch = None
    /\ \E tab \in Tabs : frag = [op |-> "to_vartable", tab |-> tab]
    /\ rt = None
    /\ exec = None

\* frag keeps, besides the table, the ids the table held before the last call
\* and the operands new_temp has returned so far, oldest first
ToVartable ==
    /\ phase = "init"
    /\ frag' = [op |-> "to_vartable", vartable |-> to_vartable(frag.tab),
                before |-> {}, returned |-> <<>>]
    /\ phase' = "lir"
    /\ UNCHANGED <<all_cfg, dispatch, rt, exec>>

SetTmp ==
    /\ phase = "lir"
    /\ \E id \in 0..MaxVarId, ty \in LirTypes :
          frag' = [frag EXCEPT !.op = "set_tmp",
                               !.vartable = set_tmp(@, id, ty),
                               !.before = DOMAIN frag.vartable.vars]
    /\ UNCHANGED <<all_cfg, phase, dispatch, rt, exec>>

NewTemp ==
    /\ phase = "lir"
    /\ Len(frag.returned) < MaxNewTemps
    /\ \E ty \in LirTypes :
          \E made \in {new_temp(frag.vartable, ty)} :
              frag' = [frag EXCEPT !.op = "new_temp",
                                   !.vartable = made.vartable,
                                   !.before = DOMAIN frag.vartable.vars,
                                   !.returned = Append(@, made.op)]
    /\ UNCHANGED <<all_cfg, phase, dispatch, rt, exec>>

NextVartable == ToVartable \/ SetTmp \/ NewTemp

SpecVartable == InitVartable /\ [][NextVartable]_vars

\* the largest argument number of add_function_arg
MaxArgNo == 0

add_function_arg(self, arg_no, var_id) ==
    [self EXCEPT !.args = IndexMap_insert(@, arg_no, var_id)]

AddFunctionArg ==
    /\ phase = "lir"
    /\ \E arg_no \in 0..MaxArgNo, var_id \in 0..MaxVarId :
          frag' = [frag EXCEPT !.op = "add_function_arg",
                               !.vartable = add_function_arg(@, arg_no, var_id),
                               !.before = DOMAIN frag.vartable.vars]
    /\ UNCHANGED <<all_cfg, phase, dispatch, rt, exec>>

NextVartableArgs == ToVartable \/ SetTmp \/ NewTemp \/ AddFunctionArg

\* the table with the arguments of the function registered as well
SpecVartableArgs == InitVartable /\ [][NextVartableArgs]_vars

----------------------------------------------------------------------------
(* abi/substrate.rs: the type registry of the metadata.  A descriptor is   *)
(* a value of enum Type; the registry is the vector Abi::types, whose      *)
(* entries are referred to by their position counted from 1.               *)

\* how many descriptors the registry holds at most
MaxTableLen == 3

Type_Builtin(primitive) == [variant |-> "Builtin", def |-> [primitive |-> primitive]]

Type_BuiltinArray(len, ty) ==
    [variant |-> "BuiltinArray", def |-> [array |-> [len |-> len, ty |-> ty]]]

Type_BuiltinSequence(ty) == [variant |-> "BuiltinSequence", def |-> [sequence |-> [ty |-> ty]]]

Type_Struct(path, fields) ==
    [variant |-> "Struct", path |-> path, def |-> [composite |-> [fields |-> fields]]]

StructField(name, ty) == [name |-> name, ty |-> ty]

\* self.types.iter().position(|t| *t == ty): the first position, counted from 0
position(types, ty) ==
    IF \E i \in 1..Len(types) : types[i] = ty
    THEN Some((CHOOSE i \in 1..Len(types) :
                  types[i] = ty /\ \A j \in 1..(i - 1) : types[j] # ty) - 1)
    ELSE None

\* register_ty answering with the position counted from 0
register_ty_from_zero(self, ty) ==
    LET found == position(self.types, ty)
    IN  IF found # None
        THEN [abi |-> self, ret |-> found.some]
        ELSE [abi |-> [self EXCEPT !.types = Append(@, ty)], ret |-> Len(self.types) + 1]

register_ty(self, ty) ==
    LET found == position(self.types, ty)
    IN  IF found # None
        THEN [abi |-> self, ret |-> found.some + 1]
        ELSE [abi |-> [self EXCEPT !.types = Append(@, ty)], ret |-> Len(self.types) + 1]

builtin_type(self, ty) == register_ty(self, Type_Builtin(ty))

builtin_array_type(self, elem, array_len) == register_ty(self, Type_BuiltinArray(array_len, elem))

builtin_slice_type(self, elem) == register_ty(self, Type_BuiltinSequence(elem))

struct_type(self, path, fields) == register_ty(self, Type_Struct(path, fields))

\* the registry of gen_abi before anything is registered
InitRegistry ==
    /\ all_cfg = <<>>
    /\ phase = "registry"
    /\ dispatch = None
    /\ frag = [op |-> "gen_abi", abi |-> [types |-> <<>>], ty |-> None, ret |-> None,
               before |-> <<>>, first |-> <<>>]
    /\ rt = None
    /\ exec = None

\* frag keeps the descriptor and the answer of the last call, the table of before
\* the call, and for every descriptor the answer of its first registration
Registered(op, ty, made) ==
    /\ Len(made.abi.types) <= MaxTableLen
    /\ frag' = [op |-> op, abi |-> made.abi, ty |-> ty, ret |-> made.ret,
                before |-> frag.abi.types,
                first |-> IF ty \in DOMAIN frag.first THEN frag.first
                          ELSE [d \in DOMAIN frag.first \cup {ty} |->
                                   IF d = ty THEN made.ret ELSE frag.first[d]]]
    /\ UNCHANGED <<all_cfg, phase, dispatch, rt, exec>>

BuiltinType ==
    /\ phase = "registry"
    /\ \E ty \in {"u8", "str"} :
          Registered("builtin_type", Type_Builtin(ty), builtin_type(frag.abi, ty))

BuiltinArrayType ==
    /\ phase = "registry"
    /\ \E elem \in 1..MaxTableLen :
          Registered("builtin_array_type", Type_BuiltinArray(32, elem),
                     builtin_array_type(frag.abi, elem, 32))

BuiltinSliceType ==
    /\ phase = "registry"
    /\ \E elem \in 1..MaxTableLen :
          Registered("builtin_slice_type", Type_BuiltinSequence(elem),
                     builtin_slice_type(frag.abi, elem))

StructType ==
    /\ phase = "registry"
    /\ \E fields \in {<<>>} \cup {<<StructField(None, ty)>> : ty \in 1..MaxTableLen} :
          Registered("struct_type", Type_Struct(<<"AccountId">>, fields),
                     struct_type(frag.abi, <<"AccountId">>, fields))

NextRegistry == BuiltinType \/ BuiltinArrayType \/ BuiltinSliceType \/ StructType

SpecRegistry == InitRegistry /\ [][NextRegistry]_vars

----------------------------------------------------------------------------
(* abi/substrate.rs: render_selector and parse_selector.  A string is the  *)
(* sequence of its characters.                                             *)

\* u32::to_be_bytes
to_be_bytes(n) == <<n.hi \div 256, n.hi % 256, n.lo \div 256, n.lo % 256>>

\* u32::to_le_bytes
to_le_bytes(n) == <<n.lo % 256, n.lo \div 256, n.hi % 256, n.hi \div 256>>

\* hex::encode writes with these digits
HEX_CHARS_LOWER ==
    <<"0", "1", "2", "3", "4", "5", "6", "7", "8", "9", "a", "b", "c", "d", "e", "f">>

\* hex::decode reads these as well
HEX_CHARS_UPPER ==
    <<"0", "1", "2", "3", "4", "5", "6", "7", "8", "9", "A", "B", "C", "D", "E", "F">>

RECURSIVE hex_encode(_)
hex_encode(bytes) ==
    IF bytes = <<>> THEN <<>>
    ELSE <<HEX_CHARS_LOWER[(Head(bytes) \div 16) + 1], HEX_CHARS_LOWER[(Head(bytes) % 16) + 1]>>
         \o hex_encode(Tail(bytes))

\* the value of a hex digit, None for any other character
hex_val(c) ==
    IF \E v \in 1..16 : c = HEX_CHARS_LOWER[v] \/ c = HEX_CHARS_UPPER[v]
    THEN Some((CHOOSE v \in 1..16 : c = HEX_CHARS_LOWER[v] \/ c = HEX_CHARS_UPPER[v]) - 1)
    ELSE None

\* hex::decode: None for the errors (an odd length, a character that is no digit)
RECURSIVE hex_decode(_)
hex_decode(chars) ==
    IF chars = <<>> THEN Some(<<>>)
    ELSE IF Len(chars) = 1 \/ hex_val(chars[1]) = None \/ hex_val(chars[2]) = None THEN None
    ELSE LET rest == hex_decode(SubSeq(chars, 3, Len(chars)))
         IN  IF rest = None THEN None
             ELSE Some(<<16 * hex_val(chars[1]).some + hex_val(chars[2]).some>> \o rest.some)

\* format!("0x{}", hex::encode(f.selector().to_le_bytes())), from the selector of f
render_selector(selector) == <<"0", "x">> \o hex_encode(to_le_bytes(selector))

\* hex::decode(&selector[2..]).unwrap(): None where unwrap panics
parse_selector(selector) == hex_decode(SubSeq(selector, 3, Len(selector)))

\* the 16-bit halves the selectors are made of
SelectorLimbs == {0, 1, 255, 256, 2571, 4660, 6782, 7928, 32768, 43981, 65535}

InitSelector ==
    /\ all_cfg = <<>>
    /\ phase = "init"
    /\ dispatch = None
    /\ \E hi \in SelectorLimbs, lo \in SelectorLimbs :
          frag = [op |-> "selector", selector |-> U(hi, lo)]
    /\ rt = None
    /\ exec = None

\* gen_abi renders the selector of a function into its Message or Constructor
RenderSelector ==
    /\ phase = "init"
    /\ frag' = [op |-> "render_selector", selector |-> frag.selector,
                rendered |-> render_selector(frag.selector)]
    /\ phase' = "rendered"
    /\ UNCHANGED <<all_cfg, dispatch, rt, exec>>

\* Message::selector / Constructor::selector parse what was rendered
ParseSelector ==
    /\ phase = "rendered"
    /\ frag' = [op |-> "parse_selector", selector |-> frag.selector,
                rendered |-> frag.rendered, parsed |-> parse_selector(frag.rendered)]
    /\ phase' = "parsed"
    /\ UNCHANGED <<all_cfg, dispatch, rt, exec>>

NextSelector == RenderSelector \/ ParseSelector

SpecSelector == InitSelector /\ [][NextSelector]_vars

----------------------------------------------------------------------------
(* codegen/events/substrate.rs: topic_hash.  The bytes of a Blake2-256    *)
(* digest are not computed: a digest byte is a number from 256 up, which   *)
(* depends on the whole input and on its position and equals no copied or  *)
(* zeroed byte.                                                            *)

\* the longest encoded topic
MaxEncodedLen == 34

\* a number that every byte of the input and its position go into
RECURSIVE Mix(_, _)
Mix(input, n) == IF n = 0 THEN 17 ELSE (Mix(input, n - 1) * 33 + input[n]) % 65536

\* <Blake2x256 as CryptoHash>::hash(input, &mut buf): all 32 bytes of buf are written
Blake2x256_hash(input) == [i \in 1..32 |-> 256 + ((Mix(input, Len(input)) + 31 * i) % 65536)]

\* topic_hash that copies only what is shorter than a hash
topic_hash_below_32(encoded) ==
    IF Len(encoded) < 32
    THEN [i \in 1..32 |-> IF i <= Len(encoded) THEN encoded[i] ELSE 0]
    ELSE Blake2x256_hash(encoded)

topic_hash(encoded) ==
    IF Len(encoded) <= 32
    THEN [i \in 1..32 |-> IF i <= Len(encoded) THEN encoded[i] ELSE 0]
    ELSE Blake2x256_hash(encoded)

\* the encoded topics: of every length, with bytes that differ by position
Encodeds ==
    {[i \in 1..n |-> (first + 7 * i) % 256] : n \in 0..MaxEncodedLen, first \in {0, 1, 250}}

InitTopic ==
    /\ all_cfg = <<>>
    /\ phase = "init"
    /\ dispatch = None
    /\ \E encoded \in Encodeds : frag = [op |-> "topic_hash", encoded |-> encoded]
    /\ rt = None
    /\ exec = None

TopicHash ==
    /\ phase = "init"
    /\ frag' = [op |-> "topic_hash", encoded |-> frag.encoded, ret |-> topic_hash(frag.encoded)]
    /\ phase' = "hashed"
    /\ UNCHANGED <<all_cfg, dispatch, rt, exec>>

NextTopic == TopicHash

SpecTopic == InitTopic /\ [][NextTopic]_vars

----------------------------------------------------------------------------
(* codegen/events/substrate.rs: SubstrateEventEmitter::emit.  Names are    *)
(* byte strings; the arguments of the event are literals, which            *)
(* codegen::expression lowers without adding an instruction.               *)

\* how many fields an event has at most
MaxFields == 3

Slice(ty) == [ty |-> "Slice", bits |-> 0, elem |-> ty]

\* Expression::AllocDynamicBytes { ty, size, initializer: Some(initializer) }
AllocDynamicBytesOf(ty, size, initializer) ==
    [e |-> "AllocDynamicBytes", ty |-> ty, size |-> size, initializer |-> initializer]

AbiEncode(tys, args) == [e |-> "AbiEncode", tys |-> tys, packed |-> <<>>, args |-> args]

CompileTime(bytes) == [location |-> "CompileTime", value |-> bytes]

RunTime(expr) == [location |-> "RunTime", value |-> expr]

StringConcat(ty, left, right) == [e |-> "StringConcat", ty |-> ty, left |-> left, right |-> right]

EmitEvent(event_no, data, data_tys, topics, topic_tys) ==
    [op |-> "EmitEvent", event_no |-> event_no, data |-> data, data_tys |-> data_tys,
     topics |-> topics, topic_tys |-> topic_tys]

\* the lowering of an argument that is a literal
expression(arg) == NumberLiteral(arg.ty, arg.value)

\* "::" in bytes
Colons == <<58, 58>>

\* parity_scale_codec's encoding of a string or of a byte vector shorter than
\* 2^14: the compact length, then the bytes
scale_encode(bytes) ==
    (IF Len(bytes) < 64 THEN <<4 * Len(bytes)>>
     ELSE <<(4 * Len(bytes) + 1) % 256, (4 * Len(bytes) + 1) \div 256>>) \o bytes

hash_len == NumberLiteral(U32, Nat32(32))

\* the event's own topic: format!("{}::{}", contract, event).encode() with byte 0 cleared
event_topic(self) ==
    LET encoded == scale_encode(self.contract_name \o Colons \o self.event.name)
    IN  AllocDynamicBytesOf(Slice(Uint(8)), hash_len,
                            topic_hash([encoded EXCEPT ![1] = 0]))

RECURSIVE topic_prefixes_of(_, _)
topic_prefixes_of(self, fields) ==
    IF fields = <<>> THEN <<>>
    ELSE (IF Head(fields).indexed
          THEN <<scale_encode(self.contract_name \o Colons \o self.event.name \o Colons
                              \o Head(fields).name)>>
          ELSE <<>>) \o topic_prefixes_of(self, Tail(fields))

\* Vec::remove taking the last element instead of the one at the index
remove_last(v, index) == [removed |-> v[Len(v)], rest |-> SubSeq(v, 1, Len(v) - 1)]

\* Vec::remove(index), the index counted from 0
remove(v, index) ==
    [removed |-> v[index + 1],
     rest |-> SubSeq(v, 1, index) \o SubSeq(v, index + 2, Len(v))]

\* an indexed argument: the topic buffer, hashed in place when it is longer than a hash
indexed_argument(s, arg) ==
    Let(remove(s.topic_prefixes, 0), LAMBDA prefix :
    Let(temp_anonymous(new_dirty_tracker(s.vartab), DynamicBytes), LAMBDA vartab :
    Let([var |-> vartab.next_id - 1,
         unhashed |-> Variable(DynamicBytes, vartab.next_id - 1),
         bigger |-> Len(s.cfg.blocks),
         done |-> Len(s.cfg.blocks) + 1], LAMBDA l :
    Let(ControlFlowGraph_add([s EXCEPT !.vartab = vartab, !.topic_prefixes = prefix.rest],
            Set(l.var, StringConcat(DynamicBytes, CompileTime(prefix.removed),
                    RunTime(AbiEncode(<<expression(arg).ty>>, <<expression(arg)>>))))),
        LAMBDA s1 :
    Let(ControlFlowGraph_add(
            [s1 EXCEPT !.cfg = new_basic_block(new_basic_block(@, "bigger"), "done")],
            BranchCond(UnsignedMore(Builtin(<<U32>>, "ArrayLength", <<l.unhashed>>), hash_len),
                       l.bigger, l.done)), LAMBDA s2 :
    Let(ControlFlowGraph_add([s2 EXCEPT !.cfg = set_basic_block(@, l.bigger)],
            WriteBuffer(l.unhashed, NumberLiteral(U32, Nat32(0)),
                        Builtin(<<Bytes(32)>>, "Blake2_256", <<l.unhashed>>))), LAMBDA s3 :
    Let(ControlFlowGraph_add([s3 EXCEPT !.vartab = set_dirty(@, l.var)], Branch(l.done)),
        LAMBDA s4 :
        [s4 EXCEPT !.cfg = set_phis(set_basic_block(@, l.done), l.done, dirty_top(s4.vartab)),
                   !.vartab = pop_dirty_tracker(@),
                   !.topics = Append(@, l.unhashed),
                   !.topic_tys = Append(@, DynamicBytes)])))))))

\* for (i, arg) in self.args.iter().enumerate(), from argument i on
RECURSIVE emit_arguments(_, _, _)
emit_arguments(self, s, i) ==
    IF i > Len(self.args) THEN s
    ELSE emit_arguments(self,
            IF self.event.fields[i].indexed
            THEN indexed_argument(s, self.args[i])
            ELSE [s EXCEPT !.data = Append(@, expression(self.args[i])),
                           !.data_tys = Append(@, self.args[i].ty)],
            i + 1)

\* s is the builder state, with fields cfg and vartab
emit(self, s) ==
    Let(emit_arguments(self,
            [cfg |-> s.cfg, vartab |-> s.vartab,
             data |-> <<>>, data_tys |-> <<>>,
             topics |-> IF ~self.event.anonymous THEN <<event_topic(self)>> ELSE <<>>,
             topic_tys |-> IF ~self.event.anonymous THEN <<DynamicBytes>> ELSE <<>>,
             topic_prefixes |-> topic_prefixes_of(self, self.event.fields)], 1), LAMBDA s1 :
    Let(ControlFlowGraph_add(s1,
            EmitEvent(self.event_no, s1.data, s1.data_tys, s1.topics, s1.topic_tys)),
        LAMBDA s2 : [cfg |-> s2.cfg, vartab |-> s2.vartab]))

\* the events: anonymous or not, with a short or a long name, and every choice
\* of indexed fields; field i is named by the byte 96 + i
Events ==
    {[anonymous |-> anonymous, name |-> name,
      fields |-> [i \in 1..n |-> [name |-> <<96 + i>>, indexed |-> i \in indexed]]] :
        anonymous \in BOOLEAN, name \in {<<69>>, [i \in 1..40 |-> 69]},
        n \in 0..MaxFields, indexed \in SUBSET (1..MaxFields)}

\* the emitter of an event of contract "c", with one literal per field; the
\* function being lowered holds one variable and may be inside a dirty tracker
InitEmit ==
    /\ all_cfg = <<>>
    /\ phase = "init"
    /\ dispatch = None
    /\ \E event \in Events, trackers \in 0..1 :
          frag = [op |-> "emit",
                  self |-> [contract_name |-> <<99>>, event_no |-> 0, event |-> event,
                            args |-> [i \in 1..Len(event.fields) |->
                                         [ty |-> IF i = 2 THEN Bool ELSE U32,
                                          value |-> Nat32(i)]]],
                  vartab |-> IF trackers = 1
                             THEN new_dirty_tracker(temps(Vartable_new(0), 1))
                             ELSE temps(Vartable_new(0), 1),
                  cfg |-> ControlFlowGraph_new("f")]
    /\ rt = None
    /\ exec = None

\* frag keeps the builder state of before the call in `before`
Emit ==
    /\ phase = "init"
    /\ \E made \in {emit(frag.self, [vartab |-> frag.vartab, cfg |-> frag.cfg])} :
          frag' = [op |-> "emit", self |-> frag.self,
                   before |-> [vartab |-> frag.vartab, cfg |-> frag.cfg],
                   vartab |-> made.vartab, cfg |-> made.cfg]
    /\ phase' = "emitted"
    /\ UNCHANGED <<all_cfg, dispatch, rt, exec>>

NextEmit == Emit

SpecEmit == InitEmit /\ [][NextEmit]_vars

----------------------------------------------------------------------------
(* tests/substrate.rs: the mock runtime, running contract Foo of test      *)
(* it_works.  The contract is its Solidity source: deploy stores the       *)
(* argument, call of foo prints and returns what is stored.                *)

\* the largest value a constructor stores, besides 1337
MaxStoredValue == 63

\* the little-endian bytes of v, n of them (parity_scale_codec's encoding of an integer)
RECURSIVE le_bytes(_, _)
le_bytes(v, n) == IF n = 0 THEN <<>> ELSE <<v % 256>> \o le_bytes(v \div 256, n - 1)

\* the selectors the metadata of Foo gives its constructor and its message foo
CONSTRUCTOR_SELECTOR == <<205, 188, 57, 22>>

FOO_SELECTOR == <<194, 152, 85, 120>>

\* the account of the contract: the hash of its code
FOO_ACCOUNT == "blake2b(code)"

\* the storage key of u
U_KEY == 0

Contract_new(value) ==
    [messages |-> [foo |-> FOO_SELECTOR], constructors |-> <<CONSTRUCTOR_SELECTOR>>,
     account |-> FOO_ACCOUNT, storage |-> <<>>, value |-> value]

\* Runtime::new; the caller is random and the code of Foo never asks for it
Runtime_new(contracts) ==
    [contracts |-> contracts, debug_buffer |-> "", events |-> <<>>, contract |-> 0,
     input |-> <<>>, output |-> <<>>, value |-> 0]

HostReturn_Data(flags, data) == [trap |-> "HostReturn::Data", flags |-> flags, data |-> data]

seal_return(flags, data) == HostReturn_Data(flags, data)

seal_set_storage(vm, key, value) ==
    [vm EXCEPT !.contracts[vm.contract + 1].storage = IndexMap_insert(@, key, value)]

seal_get_storage(vm, key) ==
    IF key \in DOMAIN vm.contracts[vm.contract + 1].storage
    THEN [ret |-> 0, value |-> vm.contracts[vm.contract + 1].storage[key]]
    ELSE [ret |-> 3, value |-> <<>>]

seal_debug_message(vm, msg) == [vm EXCEPT !.debug_buffer = @ \o msg]

\* the exported functions of Foo: what they do to the runtime and how they stop
Foo(function, vm) ==
    IF function = "deploy"
    THEN [vm |-> seal_set_storage(vm, U_KEY, SubSeq(vm.input, 5, 12)),
          stop |-> seal_return(0, <<>>)]
    ELSE [vm |-> seal_debug_message(vm, "hello world"),
          stop |-> seal_return(0, seal_get_storage(vm, U_KEY).value)]

\* Contract::execute: the data of the HostReturn::Data trap becomes the output of the runtime
Contract_execute(self, function, vm) ==
    LET ran == Foo(function, vm)
    IN  IF ran.stop.trap = "HostReturn::Data"
        THEN [ran.vm EXCEPT !.output = ran.stop.data]
        ELSE ran.vm

\* Runtime::invoke: the first contract of the account is executed
Runtime_invoke(self, account, input, export, value) ==
    LET n == CHOOSE n \in 1..Len(self.contracts) :
                 /\ self.contracts[n].account = account
                 /\ \A m \in 1..(n - 1) : self.contracts[m].account # account
    IN  Contract_execute(self.contracts[n], export,
            [self EXCEPT !.input = input, !.contract = n - 1, !.value = value])

MockSubstrate_constructor(self, index, args) ==
    [self EXCEPT !.contracts =
        Runtime_invoke(Runtime_new(self.contracts), self.contracts[self.contract + 1].account,
            self.contracts[self.contract + 1].constructors[index + 1] \o args,
            "deploy", 1).contracts]

MockSubstrate_function(self, name, args) ==
    [self EXCEPT !.contracts =
        Runtime_invoke(Runtime_new(self.contracts), self.contracts[self.contract + 1].account,
            self.contracts[self.contract + 1].messages[name] \o args, "call", 0).contracts]

\* build_solidity: one contract, everything else default
InitMock ==
    /\ all_cfg = <<>>
    /\ phase = "mock"
    /\ dispatch = None
    /\ frag = [op |-> "build_solidity",
               runtime |-> [contracts |-> <<Contract_new(0)>>, contract |-> 0, output |-> <<>>,
                            debug_buffer |-> "", events |-> <<>>],
               sealed |-> <<>>]
    /\ rt = None
    /\ exec = None

\* frag keeps in `sealed` the data the contract passed to seal_return in the last
\* call: the output of the runtime that ran it
MockConstructor ==
    /\ phase = "mock"
    /\ \E v \in (0..MaxStoredValue) \cup {1337} :
          frag' = [op |-> "constructor",
                   runtime |-> MockSubstrate_constructor(frag.runtime, 0, le_bytes(v, 8)),
                   sealed |-> Runtime_invoke(Runtime_new(frag.runtime.contracts), FOO_ACCOUNT,
                                 CONSTRUCTOR_SELECTOR \o le_bytes(v, 8), "deploy", 1).output]
    /\ UNCHANGED <<all_cfg, phase, dispatch, rt, exec>>

\* foo is called on a contract that has been deployed
MockFunction ==
    /\ phase = "mock"
    /\ U_KEY \in DOMAIN frag.runtime.contracts[frag.runtime.contract + 1].storage
    /\ frag' = [op |-> "function",
                runtime |-> MockSubstrate_function(frag.runtime, "foo", <<>>),
                sealed |-> Runtime_invoke(Runtime_new(frag.runtime.contracts), FOO_ACCOUNT,
                              FOO_SELECTOR, "call", 0).output]
    /\ UNCHANGED <<all_cfg, phase, dispatch, rt, exec>>

NextMock == MockConstructor \/ MockFunction

SpecMock == InitMock /\ [][NextMock]_vars

----------------------------------------------------------------------------
(* emit/loop_builder.rs: LoopBuilder, over a small LLVM builder: a         *)
(* function is a sequence of basic blocks, a block a sequence of           *)
(* instructions, a value a constant, an argument or the result of a named  *)
(* instruction.  The built function is then run on two loop bounds.        *)

\* the width of the loop index in bits
LoopBits == 3

\* 2^LoopBits
RECURSIVE Pow2(_)
Pow2(n) == IF n = 0 THEN 1 ELSE 2 * Pow2(n - 1)

ConstInt(n) == [const |-> n]

Argument(no) == [arg |-> no]

InstrValue(name) == [reg |-> name]

\* Context::append_basic_block: the new block is the last one
append_basic_block(c, name) == [c EXCEPT !.blocks = Append(@, [name |-> name, instr |-> <<>>])]

position_at_end(c, block) == [c EXCEPT !.insert_block = block]

\* an instruction built at the end of the insert block
build_instr(c, ins) == [c EXCEPT !.blocks[c.insert_block + 1].instr = Append(@, ins)]

build_phi(c, name) == build_instr(c, [op |-> "phi", name |-> name, incoming |-> <<>>])

build_int_add(c, lhs, rhs, name) ==
    build_instr(c, [op |-> "add", name |-> name, lhs |-> lhs, rhs |-> rhs])

build_int_compare(c, predicate, lhs, rhs, name) ==
    build_instr(c, [op |-> "icmp", predicate |-> predicate, name |-> name, lhs |-> lhs, rhs |-> rhs])

build_conditional_branch(c, comparison, then_block, else_block) ==
    build_instr(c, [op |-> "condbr", cond |-> comparison, then_block |-> then_block,
              else_block |-> else_block])

build_unconditional_branch(c, block) == build_instr(c, [op |-> "br", block |-> block])

\* PhiValue::add_incoming on the phi of that name, wherever it is
add_incoming(c, phi, value, block) ==
    [c EXCEPT !.blocks =
        [b \in 1..Len(c.blocks) |->
            [c.blocks[b] EXCEPT !.instr =
                [i \in 1..Len(c.blocks[b].instr) |->
                    IF c.blocks[b].instr[i].op = "phi" /\ c.blocks[b].instr[i].name = phi
                    THEN [c.blocks[b].instr[i] EXCEPT
                             !.incoming = Append(@, [value |-> value, block |-> block])]
                    ELSE c.blocks[b].instr[i]]]]]

\* LoopBuilder::new: the contract's builder afterwards, and the LoopBuilder
LoopBuilder_new(contract) ==
    [contract |->
        position_at_end(
            build_unconditional_branch(
                append_basic_block(append_basic_block(append_basic_block(contract, "cond"),
                                                      "body"), "done"),
                Len(contract.blocks)),
            Len(contract.blocks)),
     self |-> [phis |-> {}, entry_block |-> contract.insert_block,
               condition_block |-> Len(contract.blocks),
               body_block |-> Len(contract.blocks) + 1,
               done_block |-> Len(contract.blocks) + 2,
               loop_phi |-> None, next_index |-> None]]

add_loop_phi(self, contract, name, initial_value) ==
    [contract |-> add_incoming(build_phi(contract, name), name, initial_value, self.entry_block),
     self |-> [self EXCEPT !.phis = @ \cup {name}],
     ret |-> InstrValue(name)]

\* over that lets the index reach the higher bound
over_inclusive(self, contract, from, to) ==
    [contract |->
        position_at_end(
            add_incoming(
                build_conditional_branch(
                    build_int_compare(
                        build_int_add(build_phi(contract, "index"),
                                      InstrValue("index"), ConstInt(1), "next_index"),
                        "ULE", InstrValue("index"), to, "loop_cond"),
                    InstrValue("loop_cond"), self.body_block, self.done_block),
                "index", from, self.entry_block),
            self.body_block),
     self |-> [self EXCEPT !.loop_phi = Some("index"),
                           !.next_index = Some(InstrValue("next_index"))],
     ret |-> InstrValue("index")]

over(self, contract, from, to) ==
    [contract |->
        position_at_end(
            add_incoming(
                build_conditional_branch(
                    build_int_compare(
                        build_int_add(build_phi(contract, "index"),
                                      InstrValue("index"), ConstInt(1), "next_index"),
                        "ULT", InstrValue("index"), to, "loop_cond"),
                    InstrValue("loop_cond"), self.body_block, self.done_block),
                "index", from, self.entry_block),
            self.body_block),
     self |-> [self EXCEPT !.loop_phi = Some("index"),
                           !.next_index = Some(InstrValue("next_index"))],
     ret |-> InstrValue("index")]

set_loop_phi_value(self, contract, name, value) ==
    [contract |-> add_incoming(contract, name, value, contract.insert_block), self |-> self]

finish(self, contract) ==
    [contract |->
        position_at_end(
            build_unconditional_branch(
                add_incoming(contract, self.loop_phi.some, self.next_index.some,
                             contract.insert_block),
                self.condition_block),
            self.done_block),
     self |-> self]

\* ---- the execution of a built function ----

\* the value of an operand
ValueOf(v, regs, args) ==
    IF "const" \in DOMAIN v THEN v.const
    ELSE IF "arg" \in DOMAIN v THEN args[v.arg + 1]
    ELSE regs[v.reg]

WithReg(regs, name, value) ==
    [n \in DOMAIN regs \cup {name} |-> IF n = name THEN value ELSE regs[n]]

\* the phis of a block take their values together, from the block control came from
RECURSIVE EnterPhis(_, _, _, _, _)
EnterPhis(instr, i, prev, old, x) ==
    IF i > Len(instr) \/ instr[i].op # "phi" THEN [x EXCEPT !.pc = i]
    ELSE LET from == {k \in 1..Len(instr[i].incoming) : instr[i].incoming[k].block = prev}
         IN  IF from = {} THEN [x EXCEPT !.status = "no_incoming"]
             ELSE EnterPhis(instr, i + 1, prev, old,
                    [x EXCEPT !.regs = WithReg(@, instr[i].name,
                        ValueOf(instr[i].incoming[CHOOSE k \in from : TRUE].value,
                                old, x.args))])

EnterBlock(c, x, block) ==
    EnterPhis(c.blocks[block + 1].instr, 1, x.block, x.regs,
              [x EXCEPT !.block = block, !.trace = Append(@, block)])

LoopStart(args) ==
    [block |-> 0, pc |-> 1, regs |-> <<>>, args |-> args, trace |-> <<0>>,
     seen |-> <<>>, status |-> "running"]

\* one instruction of the function
LoopStep(c, x) ==
    IF x.pc > Len(c.blocks[x.block + 1].instr) THEN [x EXCEPT !.status = "unterminated"]
    ELSE LET ins == c.blocks[x.block + 1].instr[x.pc]
             val(v) == ValueOf(v, x.regs, x.args)
         IN  CASE ins.op = "add" ->
                    [x EXCEPT !.regs = WithReg(@, ins.name,
                                           (val(ins.lhs) + val(ins.rhs)) % Pow2(LoopBits)),
                              !.pc = @ + 1]
               [] ins.op = "icmp" ->
                    [x EXCEPT !.regs = WithReg(@, ins.name,
                                           IF ins.predicate = "ULT"
                                           THEN val(ins.lhs) < val(ins.rhs)
                                           ELSE val(ins.lhs) <= val(ins.rhs)),
                              !.pc = @ + 1]
               [] ins.op = "use" ->
                    [x EXCEPT !.seen = Append(@, val(ins.value)), !.pc = @ + 1]
               [] ins.op = "br" -> EnterBlock(c, x, ins.block)
               [] ins.op = "condbr" ->
                    EnterBlock(c, x, IF val(ins.cond) THEN ins.then_block ELSE ins.else_block)
               [] ins.op = "ret" -> [x EXCEPT !.status = "returned"]
               [] OTHER -> [x EXCEPT !.status = "stuck"]

\* ---- a function with one loop ----

\* a function with its entry block, about to get a loop with or without a phi
\* of its own
InitLoop ==
    /\ all_cfg = <<>>
    /\ phase = "new"
    /\ dispatch = None
    /\ \E with_phi \in BOOLEAN :
          frag = [op |-> "function", with_phi |-> with_phi, self |-> None, index |-> None,
                  contract |-> [blocks |-> <<[name |-> "entry", instr |-> <<>>]>>,
                                insert_block |-> 0]]
    /\ rt = None
    /\ exec = None

LoopNew ==
    /\ phase = "new"
    /\ \E made \in {LoopBuilder_new(frag.contract)} :
          frag' = [frag EXCEPT !.op = "new", !.contract = made.contract, !.self = made.self]
    /\ phase' = IF frag.with_phi THEN "add_loop_phi" ELSE "over"
    /\ UNCHANGED <<all_cfg, dispatch, rt, exec>>

\* the phi "sum" starts at 0
LoopAddLoopPhi ==
    /\ phase = "add_loop_phi"
    /\ \E made \in {add_loop_phi(frag.self, frag.contract, "sum", ConstInt(0))} :
          frag' = [frag EXCEPT !.op = "add_loop_phi", !.contract = made.contract,
                               !.self = made.self]
    /\ phase' = "over"
    /\ UNCHANGED <<all_cfg, dispatch, rt, exec>>

\* the bounds are the two arguments of the function
LoopOver ==
    /\ phase = "over"
    /\ \E made \in {over(frag.self, frag.contract, Argument(0), Argument(1))} :
          frag' = [frag EXCEPT !.op = "over", !.contract = made.contract, !.self = made.self,
                               !.index = made.ret]
    /\ phase' = "body"
    /\ UNCHANGED <<all_cfg, dispatch, rt, exec>>

\* the body uses the index, and adds it to the phi when there is one
LoopBody ==
    /\ phase = "body"
    /\ \E used \in {build_instr(frag.contract, [op |-> "use", value |-> frag.index])} :
          frag' = [frag EXCEPT
                      !.op = "body",
                      !.contract =
                          IF frag.with_phi
                          THEN set_loop_phi_value(frag.self,
                                   build_int_add(used, InstrValue("sum"), frag.index, "next_sum"),
                                   "sum", InstrValue("next_sum")).contract
                          ELSE used]
    /\ phase' = "finish"
    /\ UNCHANGED <<all_cfg, dispatch, rt, exec>>

\* after finish the function returns, in the done block
LoopFinish ==
    /\ phase = "finish"
    /\ frag' = [frag EXCEPT !.op = "finish",
                            !.contract = build_instr(finish(frag.self, frag.contract).contract,
                                               [op |-> "ret"])]
    /\ phase' = "built"
    /\ UNCHANGED <<all_cfg, dispatch, rt, exec>>

LoopInvoke ==
    /\ phase = "built"
    /\ frag.op = "finish"
    /\ \E from \in 0..(Pow2(LoopBits) - 1), to \in 0..(Pow2(LoopBits) - 1) :
          /\ rt' = [args |-> <<from, to>>]
          /\ exec' = LoopStart(<<from, to>>)
    /\ phase' = "running"
    /\ UNCHANGED <<all_cfg, dispatch, frag>>

LoopRun ==
    /\ phase = "running"
    /\ frag.op = "finish"
    /\ exec' = LoopStep(frag.contract, exec)
    /\ phase' = IF exec'.status = "running" THEN "running" ELSE "halted"
    /\ UNCHANGED <<all_cfg, dispatch, frag, rt>>

NextLoop ==
    \/ LoopNew \/ LoopAddLoopPhi \/ LoopOver \/ LoopBody \/ LoopFinish
    \/ LoopInvoke \/ LoopRun

SpecLoop == InitLoop /\ [][NextLoop]_vars

\* C29: in the dispatch CFG nothing follows a terminator in its block; block 0 is
\* the entry and ends in the conditional branch on the input length; the block
\* assert_failure holds the AssertFailure instruction and nothing else.
C29_BlocksWellFormed ==
    dispatch # None =>
        LET blocks == dispatch.cfg.blocks
            entry == blocks[1].instr
        IN  /\ \A b \in 1..Len(blocks) : \A i \in 1..(Len(blocks[b].instr) - 1) :
                  blocks[b].instr[i].op \notin Terminators
            /\ blocks[1].name = "entry"
            /\ entry # <<>>
            /\ entry[Len(entry)].op = "BranchCond"
            /\ blocks[dispatch.fail_bb + 1].instr = <<AssertFailure>>

----------------------------------------------------------------------------
(* Properties of the compact-size fragment.                                *)

\* the size the lowered function was called on
SizeN == rt.args[1]

FragBlock(name) ==
    CHOOSE b \in 0..(Len(frag.cfg.blocks) - 1) : frag.cfg.blocks[b + 1].name = name

\* C8: the width the fragment computes is 1 for n < 0x40, 2 for 0x40 <= n < 0x4000
\* and 4 for 0x4000 <= n < 0x40000000.
C8_WidthClasses ==
    (phase = "halted" /\ ULess(SizeN, Nat32(1073741824))) =>
        /\ exec.status = "return_code"
        /\ Eval(frag.ret, rt.args, exec.env)
              = Nat32(IF ULess(SizeN, Nat32(64)) THEN 1
                      ELSE IF ULess(SizeN, Nat32(16384)) THEN 2 ELSE 4)

\* C9: every n >= 0x40000000 goes from the first branch of the fragment to the
\* fail block and its AssertFailure, and nothing is written.
C9_LimitFailsFirst ==
    (phase = "halted" /\ ~ULess(SizeN, Nat32(1073741824))) =>
        /\ exec.status = "assert_failure"
        /\ exec.trace = <<0, FragBlock("fail")>>
        /\ exec.writes = <<>>

\* C10: every value encode_size writes is n * 4 + tag computed without leaving 32
\* bits, with tag 0 written in block small, 1 in medium and 2 in big.
C10_WrittenPayload ==
    phase \in {"running", "halted"} =>
        \A i \in 1..Len(exec.writes) :
            LET w == exec.writes[i]
                name == frag.cfg.blocks[w.block + 1].name
                wide == UMulWide(SizeN, 4)
            IN  /\ name \in {"small", "medium", "big"}
                /\ wide.carry = 0
                /\ w.value = U(wide.val.hi,
                               wide.val.lo + (CASE name = "small" -> 0
                                                [] name = "medium" -> 1
                                                [] name = "big" -> 2))

\* the bytes a WriteBuffer stores: the value little-endian, as wide as its type
StoredBytes(w) ==
    SubSeq(<<w.value.lo % 256, w.value.lo \div 256, w.value.hi % 256, w.value.hi \div 256>>,
           1, w.bits \div 8)

\* the reference decoder of the compact format: the two low bits of the first
\* byte select the mode, the value is the little-endian number above them
compact_decode(bytes) ==
    LET tag == bytes[1] % 4 IN
    CASE tag = 0 -> [value |-> Nat32(bytes[1] \div 4), consumed |-> 1]
      [] tag = 1 -> [value |-> Nat32((bytes[1] + 256 * bytes[2]) \div 4), consumed |-> 2]
      [] tag = 2 -> LET v == from_bytes_le(SubSeq(bytes, 1, 4))
                    IN  [value |-> U(v.hi \div 4, (v.lo \div 4) + (v.hi % 4) * (Limb \div 4)),
                         consumed |-> 4]
      [] tag = 3 -> [value |-> None, consumed |-> 5 + (bytes[1] \div 4)]

\* what size_width computes for n: the run of a function lowered with size_width
SizeWidthOf(n, r) ==
    LET made == size_width([vartab |-> Vartable_new(0), cfg |-> ControlFlowGraph_new("f")],
                           SizeArg)
        end == ControlFlowGraph_add(made, ReturnCode("Success"))
        x == Run(end.cfg, 0, [r EXCEPT !.args = <<n>>])
    IN  Eval(made.ret, <<n>>, x.env)

\* the encode_size function has run to its return
Encoded == phase = "halted" /\ frag.op = "encode_size" /\ exec.status = "return_code"

\* C11: for 0 <= n < 0x40000000 the reference decoder reads n back from the bytes
\* encode_size writes for n, and consumes exactly size_width(n) bytes.
C11_CompactRoundTrip ==
    (phase = "halted" /\ frag.op = "encode_size" /\ ULess(SizeN, Nat32(1073741824))) =>
        /\ Encoded
        /\ Len(exec.writes) = 1
        /\ LET d == compact_decode(StoredBytes(exec.writes[1]))
           IN  /\ d.value = SizeN
               /\ Nat32(d.consumed) = SizeWidthOf(SizeN, rt)

\* C12: on every path of encode_size that reaches done exactly one WriteBuffer is
\* executed, at the given offset, and it stores as many bytes as the fragment
\* returns as written (1, 2 or 4).
C12_OneWriteOfReturnedWidth ==
    Encoded =>
        /\ Len(exec.writes) = 1
        /\ exec.writes[1].offset = rt.args[3]
        /\ Eval(frag.ret, rt.args, exec.env) \in {Nat32(1), Nat32(2), Nat32(4)}
        /\ Nat32(exec.writes[1].bits \div 8) = Eval(frag.ret, rt.args, exec.env)

\* the length of the payload the lowered function was called on
PayloadLen == Len(rt.args[1])

\* C13: get_encoding_size of a string or dynamic bytes of payload length len is
\* len when the encoder is packed, where no block is added to the graph, and
\* size_width(len) + len when it is not.
C13_EncodingSize ==
    /\ (phase # "init" /\ frag.packed_encoder) => Len(frag.cfg.blocks) = 1
    /\ phase = "halted" =>
          /\ exec.status = "return_code"
          /\ Eval(frag.ret, rt.args, exec.env)
                = IF frag.packed_encoder THEN Nat32(PayloadLen)
                  ELSE Nat32(SizeWidthOf(Nat32(PayloadLen), rt).lo + PayloadLen)

\* an encoder that is not packed has computed the size of a payload of the
\* two-byte class
C13_Witness ==
    /\ phase = "halted"
    /\ PayloadLen > CompactSmall
    /\ ~frag.packed_encoder
    /\ Eval(frag.ret, rt.args, exec.env) = Nat32(PayloadLen + 2)

\* the ids of the variables of a table
IdsOf(vartab) == {vartab.vars[i].id : i \in 1..Len(vartab.vars)}

\* the instructions of the current block
CurrentInstrs(cfg) == cfg.blocks[cfg.current + 1].instr

----------------------------------------------------------------------------
(* Properties of the try-catch lowering.                                   *)

\* the number of declared error clauses
TryK == Len(frag.try_stmt.errors)

\* the lowering has stopped: try_catch has returned, or the compiler has aborted
Ended == phase \in {"done", "aborted"}

NamedBlocks(cfg, name) == {b \in 0..(Len(cfg.blocks) - 1) : cfg.blocks[b + 1].name = name}

\* the tag an error clause is matched by
TagOf(clause) == IF clause.param.ty = String THEN ERROR_SELECTOR ELSE PANIC_SELECTOR

\* where the graph tests the selector against a tag: (block, index) pairs
Tests(cfg, tag) ==
    UNION {{<<b, i>> : i \in {j \in 1..Len(cfg.blocks[b + 1].instr) :
                                LET ins == cfg.blocks[b + 1].instr[j]
                                IN  /\ ins.op = "BranchCond"
                                    /\ ins.cond.e = "Equal"
                                    /\ ins.cond.right.n = tag}} :
           b \in 0..(Len(cfg.blocks) - 1)}

\* C15: with k >= 1 error clauses the lowering ends with exactly the clause
\* blocks catch_error_0 .. catch_error_{k-1}; clause i is tested in block
\* catch_error_i, once, by a branch that goes to a matched block on equality and
\* otherwise to catch_error_{i+1}, or to no_match_err_id after the last clause.
C15_ClauseBlocks ==
    (phase # "init" /\ TryK >= 1) =>
        /\ \A i \in 0..(TryK + MaxIterations) :
              Cardinality(NamedBlocks(frag.cfg, "catch_error_" \o ToString(i)))
                  <= (IF i < TryK THEN 1 ELSE 0)
        /\ \A i \in 1..TryK :
              Cardinality(Tests(frag.cfg, TagOf(frag.try_stmt.errors[i]))) <= 1
        /\ Ended =>
              /\ phase = "done"
              /\ \A i \in 1..TryK :
                    \E b \in NamedBlocks(frag.cfg, "catch_error_" \o ToString(i - 1)) :
                        /\ Tests(frag.cfg, TagOf(frag.try_stmt.errors[i])) = {<<b, 1>>}
                        /\ Len(frag.cfg.blocks[b + 1].instr) = 1
                        /\ LET ins == frag.cfg.blocks[b + 1].instr[1]
                           IN  /\ ins.true_block \in NamedBlocks(frag.cfg, "match_err_id")
                               /\ ins.false_block \in
                                    (IF i < TryK
                                     THEN NamedBlocks(frag.cfg, "catch_error_" \o ToString(i))
                                     ELSE {frag.no_match_err_id})

\* the four bytes ReadFromBuffer reads as the tag
SelectorBytes(tag) == <<tag.lo % 256, tag.lo \div 256, tag.hi % 256, tag.hi \div 256>>

\* error data that matches no declared clause: at most four bytes long, or longer
\* and with the tag of an undeclared error
NoMatchData(try_stmt) ==
    {<<>>, SelectorBytes(ERROR_SELECTOR), SelectorBytes(PANIC_SELECTOR),
     SelectorBytes(U(1, 2)) \o <<0>>}
    \cup {SelectorBytes(tag) \o <<0>> :
            tag \in {ERROR_SELECTOR, PANIC_SELECTOR}
                    \ {TagOf(try_stmt.errors[i]) : i \in 1..Len(try_stmt.errors)}}

\* the run of the generated code from a block, with the return data of the call
RunOn(cfg, block, data) ==
    RunFor(cfg, [ExecStart(block) EXCEPT !.env = (ReturnDataSlot :> data)],
           [args |-> <<>>, math_overflow_check |-> FALSE],
           InstrCount(cfg, Len(cfg.blocks)) + 1)

\* the run re-raises with the data as payload, past no clause body and not to finally
Bubbles(x, data) ==
    /\ x.status = "assert_failure"
    /\ x.payload = data
    /\ x.block = frag.no_match_err_id
    /\ \A i \in 1..Len(x.trace) :
          /\ x.trace[i] # frag.finally_block
          /\ x.trace[i] \notin NamedBlocks(frag.cfg, "match_err_id")

\* C16: with at least one error clause and no catch-all, a call that fails with
\* error data of length <= 4, or with a selector that equals no declared tag,
\* reaches no_match_err_id and executes an AssertFailure whose payload is the
\* error data; no clause body and no branch to finally is executed.
C16_BubbleOnNoMatch ==
    (Ended /\ TryK >= 1 /\ frag.try_stmt.catch_all = None) =>
        /\ Bubbles(RunOn(frag.cfg, frag.cases.error_no_data, <<>>), <<>>)
        /\ \A data \in NoMatchData(frag.try_stmt) :
              Bubbles(RunOn(frag.cfg, frag.cases.revert, data), data)

\* the block ends with the branch to finally
BranchesToFinally(b) ==
    LET instr == frag.cfg.blocks[b + 1].instr
    IN  /\ instr # <<>>
        /\ instr[Len(instr)] = Branch(frag.finally_block)

\* the blocks where the selector test of the clause goes on equality
MatchedBlocks(clause) ==
    {frag.cfg.blocks[t[1] + 1].instr[t[2]].true_block : t \in Tests(frag.cfg, TagOf(clause))}

\* C17: when the lowering has ended, the ok block, the matched block of every
\* error clause and the block of the catch-all clause end with a branch to
\* finally if and only if the last statement of the body is reachable (an empty
\* body is).
C17_FinallyEdgeIffReachable ==
    Ended =>
        /\ BranchesToFinally(frag.ok_block) <=> last_reachable(frag.try_stmt.ok_stmt)
        /\ \A i \in 1..TryK :
              /\ MatchedBlocks(frag.try_stmt.errors[i]) # {}
              /\ \A b \in MatchedBlocks(frag.try_stmt.errors[i]) :
                    BranchesToFinally(b) <=> last_reachable(frag.try_stmt.errors[i].stmt)
        /\ frag.try_stmt.catch_all # None =>
              (BranchesToFinally(IF TryK = 0 THEN frag.catch_block ELSE frag.no_match_err_id)
                  <=> last_reachable(frag.try_stmt.catch_all.stmt))

\* the variables set in the blocks of the ok branch and of the catch clauses
DirtiedInClauses(cfg) ==
    UNION {{cfg.blocks[b + 1].instr[i].res :
               i \in {j \in 1..Len(cfg.blocks[b + 1].instr) :
                         cfg.blocks[b + 1].instr[j].op = "Set"}} :
           b \in {c \in 0..(Len(cfg.blocks) - 1) :
                     cfg.blocks[c + 1].name
                         \notin {"entry", "ret_success", "ret_revert", "ret_no_data"}}}

\* C18: when the lowering has ended, the phi set of finally is the set of
\* variables dirtied in the ok block and the catch clauses, without the bound
\* position of each error clause and of the catch-all.
C18_FinallyPhis ==
    Ended =>
        frag.cfg.blocks[frag.finally_block + 1].phis
            = DirtiedInClauses(frag.cfg) \ param_positions(frag.try_stmt)

\* the blocks a block's terminators name
Successors(cfg, b) ==
    UNION {LET ins == cfg.blocks[b + 1].instr[i]
           IN  CASE ins.op = "Branch" -> {ins.block}
                 [] ins.op = "BranchCond" -> {ins.true_block, ins.false_block}
                 [] ins.op = "Switch" ->
                        {ins.default} \cup {ins.cases[j].block : j \in 1..Len(ins.cases)}
                 [] OTHER -> {} :
           i \in 1..Len(cfg.blocks[b + 1].instr)}

RECURSIVE ReachableFrom(_, _, _)
ReachableFrom(cfg, seen, n) ==
    IF n = 0 THEN seen
    ELSE ReachableFrom(cfg, seen \cup UNION {Successors(cfg, b) : b \in seen}, n - 1)

\* C19: both failure paths assign the same variable, the empty dynamic bytes where
\* the call left no data and the return data where it reverted, and then branch
\* to catch; the phi set of catch holds the variable; no path from the success
\* block leads to catch.
C19_FailurePathsConverge ==
    phase # "init" =>
        LET v == frag.error_ret_data_var
            no_data == frag.cfg.blocks[frag.cases.error_no_data + 1].instr
            revert == frag.cfg.blocks[frag.cases.revert + 1].instr
        IN  /\ Len(no_data) = 2 /\ Len(revert) = 2
            /\ no_data[1].op = "Set" /\ no_data[1].res = v
            /\ Eval(no_data[1].expr, <<>>, (ReturnDataSlot :> <<1, 2>>)) = <<>>
            /\ revert[1].op = "Set" /\ revert[1].res = v
            /\ Eval(revert[1].expr, <<>>, (ReturnDataSlot :> <<1, 2>>)) = <<1, 2>>
            /\ no_data[2] = Branch(frag.catch_block)
            /\ revert[2] = Branch(frag.catch_block)
            /\ v \in frag.cfg.blocks[frag.catch_block + 1].phis
            /\ frag.catch_block
                  \notin ReachableFrom(frag.cfg, {frag.cases.success}, Len(frag.cfg.blocks))

\* a statement whose call returns a value has been lowered to the end, and the
\* success block leads to ok
C19_Witness ==
    /\ phase = "done"
    /\ frag.try_stmt.returns # <<>>
    /\ frag.ok_block \in Successors(frag.cfg, frag.cases.success)
    /\ frag.cfg.blocks[frag.catch_block + 1].phis = {frag.error_ret_data_var}

----------------------------------------------------------------------------
(* Properties of the lir variable table.                                   *)

\* C20: after any calls of to_vartable, set_tmp and new_temp, next_id is greater
\* than every id in vars; the id new_temp returns was not in the table before the
\* call; and the ids new_temp returns, one call after the other, increase strictly.
C20_NextIdAboveAllIds ==
    phase = "lir" =>
        /\ \A id \in DOMAIN frag.vartable.vars : id < frag.vartable.next_id
        /\ frag.op = "new_temp" =>
              frag.returned[Len(frag.returned)].id \notin frag.before
        /\ \A i \in 1..Len(frag.returned) : \A j \in 1..Len(frag.returned) :
              i < j => frag.returned[i].id < frag.returned[j].id

\* a table made from codegen variables holds a temporary of set_tmp below the
\* ids new_temp returned, and a second call of new_temp has just returned
C20_Witness ==
    /\ phase = "lir"
    /\ frag.op = "new_temp"
    /\ Len(frag.returned) >= 2
    /\ \E id \in DOMAIN frag.vartable.vars :
          /\ frag.vartable.vars[id].name = TEMP_PREFIX \o ToString(id)
          /\ id < frag.returned[1].id
    /\ \E id \in DOMAIN frag.vartable.vars : frag.vartable.vars[id].name = "v" \o ToString(id)

\* C21: an id of the table stays bound to the variable it was bound to: whatever
\* is called next (new_temp, set_tmp, add_function_arg), the type and the name
\* stored under an id the table holds are the same after the call.
C21_IdsNeverRebound ==
    [][phase = "lir" =>
          \A id \in DOMAIN frag.vartable.vars :
              /\ id \in DOMAIN frag'.vartable.vars
              /\ frag'.vartable.vars[id].ty = frag.vartable.vars[id].ty
              /\ frag'.vartable.vars[id].name = frag.vartable.vars[id].name]_vars

----------------------------------------------------------------------------
(* Properties of the type registry.                                        *)

SelectorBytesLE(n) ==
    <<n.lo - 256 * (n.lo \div 256), n.lo \div 256, n.hi - 256 * (n.hi \div 256), n.hi \div 256>>

\* C26: render_selector gives "0x" and the 8 hex digits of the four bytes of the
\* selector, least significant byte first, and parse_selector of that string
\* gives those four bytes back.
C26_SelectorRoundTrip ==
    /\ phase \in {"rendered", "parsed"} /\ frag.op \in {"render_selector", "parse_selector"} =>
          /\ Len(frag.rendered) = 10
          /\ frag.rendered[1] = "0" /\ frag.rendered[2] = "x"
          /\ \A i \in 1..4 :
                /\ hex_val(frag.rendered[2 * i + 1]) = Some(SelectorBytesLE(frag.selector)[i] \div 16)
                /\ hex_val(frag.rendered[2 * i + 2]) = Some(SelectorBytesLE(frag.selector)[i] % 16)
    /\ phase = "parsed" /\ frag.op = "parse_selector" =>
          frag.parsed = Some(SelectorBytesLE(frag.selector))

\* the selector 0x1a7e1ef8, rendered as 0xf81e7e1a, has been parsed
C26_Witness ==
    /\ phase = "parsed"
    /\ frag.op = "parse_selector"
    /\ frag.selector = U(6782, 7928)
    /\ frag.rendered = <<"0", "x", "f", "8", "1", "e", "7", "e", "1", "a">>
    /\ frag.parsed = Some(<<248, 30, 126, 26>>)

----------------------------------------------------------------------------
(* Properties of the event topics.                                         *)

\* C23: topic_hash returns 32 bytes; for an input of at most 32 bytes they are the
\* input followed by zeros; for a longer input they are the Blake2-256 hash of
\* the whole input; an input of exactly 32 bytes is copied, not hashed.
C23_TopicHash ==
    phase = "hashed" =>
        LET encoded == frag.encoded
            len == Len(encoded)
        IN  /\ Len(frag.ret) = 32
            /\ len <= 32 =>
                  /\ \A i \in 1..len : frag.ret[i] = encoded[i]
                  /\ \A i \in (len + 1)..32 : frag.ret[i] = 0
            /\ len > 32 => frag.ret = Blake2x256_hash(encoded)
            /\ len = 32 => frag.ret = encoded

\* an input with as many bytes as a hash has been turned into a topic
C23_Witness ==
    /\ phase = "hashed"
    /\ Len(frag.encoded) = 32
    /\ frag.ret[32] = frag.encoded[32]
    /\ frag.encoded[32] # 0

\* the numbers of the fields that are indexed, or of those that are not, from i on
RECURSIVE FieldNos(_, _, _)
FieldNos(fields, indexed, i) ==
    IF i > Len(fields) THEN <<>>
    ELSE (IF fields[i].indexed = indexed THEN <<i>> ELSE <<>>) \o FieldNos(fields, indexed, i + 1)

\* C24: the EmitEvent instruction of emit has as many topics (and topic types) as
\* the event has indexed arguments, plus one when the event is not anonymous, and
\* as many data values (and data types) as it has arguments that are not indexed;
\* the event's own topic is first; indexed and other arguments keep their order;
\* the i-th indexed argument is concatenated with the prefix of the i-th indexed
\* field.
C24_EmitEvent ==
    phase = "emitted" =>
        LET self == frag.self
            fields == self.event.fields
            block == frag.cfg.blocks[frag.cfg.current + 1].instr
            ev == block[Len(block)]
            own == IF self.event.anonymous THEN 0 ELSE 1
            ix == FieldNos(fields, TRUE, 1)
            nx == FieldNos(fields, FALSE, 1)
            assigned(id) ==
                {ins \in UNION {{frag.cfg.blocks[b].instr[i] :
                                    i \in 1..Len(frag.cfg.blocks[b].instr)} :
                                b \in 1..Len(frag.cfg.blocks)} :
                    ins.op = "Set" /\ ins.res = id}
        IN  /\ ev.op = "EmitEvent"
            /\ Len(ev.topics) = own + Len(ix)
            /\ Len(ev.topic_tys) = own + Len(ix)
            /\ Len(ev.data) = Len(nx)
            /\ Len(ev.data_tys) = Len(nx)
            /\ own = 1 => ev.topics[1].e = "AllocDynamicBytes" /\ Len(ev.topics[1].initializer) = 32
            /\ \A j \in 1..Len(nx) :
                  /\ ev.data[j] = NumberLiteral(self.args[nx[j]].ty, self.args[nx[j]].value)
                  /\ ev.data_tys[j] = self.args[nx[j]].ty
            /\ \A j \in 1..Len(ix) :
                  /\ ev.topics[own + j].e = "Variable"
                  /\ \E ins \in assigned(ev.topics[own + j].id) :
                        /\ assigned(ev.topics[own + j].id) = {ins}
                        /\ ins.expr.e = "StringConcat"
                        /\ ins.expr.left =
                              CompileTime(scale_encode(self.contract_name \o Colons
                                  \o self.event.name \o Colons \o fields[ix[j]].name))
                        /\ ins.expr.right.value.e = "AbiEncode"
                        /\ ins.expr.right.value.args =
                              <<NumberLiteral(self.args[ix[j]].ty, self.args[ix[j]].value)>>

\* an event that is not anonymous, whose first and third fields are indexed and
\* whose second is not, has been emitted
C24_Witness ==
    /\ phase = "emitted"
    /\ frag.op = "emit"
    /\ ~frag.self.event.anonymous
    /\ Len(frag.self.event.fields) = 3
    /\ FieldNos(frag.self.event.fields, TRUE, 1) = <<1, 3>>
    /\ frag.cfg.blocks[frag.cfg.current + 1].instr[1].op = "EmitEvent"

----------------------------------------------------------------------------
(* Properties of the mock runtime.                                         *)

\* C25: after MockSubstrate::function returns, the output of the MockSubstrate is
\* the data the contract passed to seal_return in that call: after a constructor
\* that stores v and a call of foo, which returns what is stored, it is encode(v).
C25_OutputAfterFunction ==
    (phase = "mock" /\ frag.op = "function") =>
        /\ frag.runtime.output = frag.sealed
        /\ frag.runtime.output = frag.runtime.contracts[1].storage[U_KEY]

\* C27: the lowering of a try-catch statement with k >= 1 error clauses ends: the
\* clause loop of insert_catch_clauses is left after k iterations, the compiler
\* does not abort, and try_catch returns with finally as the current block.
C27_LoweringTerminates ==
    (phase # "init" /\ TryK >= 1) =>
        /\ phase # "aborted"
        /\ frag.iterations <= TryK
        /\ phase = "done" => frag.cfg.current = frag.finally_block

----------------------------------------------------------------------------
(* The dirty-tracker stack across the lowering routines.                   *)

\* encode_compact leaves as many trackers as it found (none, in a new function)
EncodeCompactKeepsTrackers == phase = "built" => Len(frag.vartab.dirty) = 0

\* emit leaves as many trackers as it found
EmitKeepsTrackers ==
    phase = "emitted" => Len(frag.vartab.dirty) = Len(frag.before.vartab.dirty)

\* C28: every lowering routine pops the tracker it pushed, on every path, so that
\* it leaves the stack of trackers as deep as it found it; for try_catch (and
\* insert_try_expression inside it): when the lowering of the statement has
\* stopped, the stack is as deep as when it started.
C28_TrackerDepth ==
    Ended => Len(frag.vartab.dirty) = Len(TryState(frag.try_stmt).vartab.dirty)

----------------------------------------------------------------------------
(* Properties of the loop builder                                          *)

\* how often the function entered a block
Entered(trace, block) == Cardinality({i \in 1..Len(trace) : trace[i] = block})

\* C30: a loop built with new, add_loop_phi, over(from, to), a body,
\* set_loop_phi_value and finish runs its body once for each index from,
\* from + 1, ..., to - 1, in that order, and then goes on in the done block; it
\* runs the body no time when from >= to (unsigned), and the body never sees
\* the index to.
C30_LoopOver ==
    phase \in {"running", "halted"} =>
        /\ \A i \in 1..Len(exec.seen) :
              /\ exec.seen[i] = rt.args[1] + i - 1
              /\ exec.seen[i] # rt.args[2]
        /\ Len(exec.seen) <= Entered(exec.trace, frag.self.body_block)
        /\ phase = "halted" =>
              /\ exec.status = "returned"
              /\ exec.block = frag.self.done_block
              /\ Entered(exec.trace, frag.self.body_block) = Len(exec.seen)
              /\ Len(exec.seen) = IF rt.args[1] < rt.args[2] THEN rt.args[2] - rt.args[1] ELSE 0

\* a loop with a phi of its own went over 5 and 6 and returned from the done block
C30_Witness ==
    /\ phase = "halted"
    /\ frag.with_phi
    /\ rt.args = <<5, 7>>
    /\ exec.seen = <<5, 6>>
    /\ exec.status = "returned"
    /\ exec.regs["sum"] = 3

====
